---- MODULE Spec2Model ----
(***************************************************************************)
(* Local-track resolution of tini-presence (src/src/local-files.ts):       *)
(* the text normalizers, the two scoring matchers (Spotify index and       *)
(* folder scan) and the index cache with its invalidation.                 *)
(*                                                                         *)
(* Strings are sequences of one-character tokens.  Characters outside      *)
(* ASCII are named tokens ("Eacute" for U+00C9, "cjk1" for a letter with   *)
(* no transliteration entry).                                              *)
(***************************************************************************)
EXTENDS Integers, Sequences, FiniteSets, TLC

\* "not found" (null) and a found path
NotFound == [found |-> FALSE]

Found(f) == [found |-> TRUE, path |-> f]

(***************************************************************************)
(* Characters                                                              *)
(***************************************************************************)
\* Strings.  Every helper that walks a string is a function on Str, so that
\* its argument is evaluated once, before the walk.
Str == Seq(STRING)

LowerSeq ==
  <<"a","b","c","d","e","f","g","h","i","j","k","l","m",
    "n","o","p","q","r","s","t","u","v","w","x","y","z">>

UpperSeq ==
  <<"A","B","C","D","E","F","G","H","I","J","K","L","M",
    "N","O","P","Q","R","S","T","U","V","W","X","Y","Z">>

Range(f) == { f[i] : i \in DOMAIN f }

LowerLetters == Range(LowerSeq)

UpperLetters == Range(UpperSeq)

Digits == {"0","1","2","3","4","5","6","7","8","9"}

\* \s of the regular expressions
IsSpace(c) == c \in {" ", "\t"}

\* [a-z0-9]
IsLowerAlnum(c) == c \in LowerLetters \cup Digits

\* [A-Za-z0-9]
IsAlnum(c) == c \in LowerLetters \cup UpperLetters \cup Digits

\* \p{L}\p{N}: the ASCII letters and digits and the named non-ASCII letters
IsUnicodeAlnum(c) ==
  IsAlnum(c) \/ c \in {"Eacute", "eacute", "szlig", "cjk1", "cjk2", "CYR", "cyr"}

\* String.prototype.toLowerCase, one character
ToLowerChar(c) ==
  IF c \in UpperLetters
    THEN LowerSeq[CHOOSE i \in DOMAIN UpperSeq : UpperSeq[i] = c]
    ELSE IF c = "Eacute" THEN "eacute"
    ELSE IF c = "CYR" THEN "cyr"
    ELSE c

ToLower[s \in Str] == [i \in DOMAIN s |-> ToLowerChar(s[i])]

(***************************************************************************)
(* Generic sequence helpers (String.prototype.includes, trim, ...)         *)
(***************************************************************************)
\* s.includes(t)
Includes[s \in Str, t \in Str] ==
  \E i \in 0..(Len(s) - Len(t)) : SubSeq(s, i + 1, i + Len(t)) = t

TrimLeft[s \in Str] ==
  IF s # <<>> /\ IsSpace(Head(s)) THEN TrimLeft[Tail(s)] ELSE s

TrimRight[s \in Str] ==
  IF s # <<>> /\ IsSpace(s[Len(s)])
    THEN TrimRight[SubSeq(s, 1, Len(s) - 1)]
    ELSE s

\* String.prototype.trim
Trim[s \in Str] == TrimRight[TrimLeft[s]]

\* s.replace(/\s+/g, rep)
CollapseSpaces[s \in Str, rep \in Str] ==
  IF s = <<>> THEN <<>>
  ELSE IF IsSpace(Head(s))
    THEN rep \o CollapseSpaces[TrimLeft[s], rep]
    ELSE <<Head(s)>> \o CollapseSpaces[Tail(s), rep]

\* s.replace(/\s/g, "")
RemoveSpaces(s) == SelectSeq(s, LAMBDA c : ~IsSpace(c))

\* the first occurrence of every element of s, in order ([...new Set(s)])
Dedupe(s) ==
  LET F[i \in 0..Len(s)] ==
        IF i = 0 THEN <<>>
        ELSE IF \E j \in 1..(i - 1) : s[j] = s[i]
          THEN F[i - 1]
          ELSE Append(F[i - 1], s[i])
  IN  F[Len(s)]

(***************************************************************************)
(* slugify (npm "slugify" 1.x), as called by the two normalizers           *)
(***************************************************************************)
\* charMap / locale lookup of one character
SlugCharMap(c) ==
  CASE c = "Eacute" -> <<"E">>
    [] c = "eacute" -> <<"e">>
    [] c = "szlig"  -> <<"s","s">>
    [] c = "CYR"    -> <<"B">>
    [] c = "cyr"    -> <<"b">>
    [] c = "&"      -> <<"a","n","d">>
    [] c = "$"      -> <<"d","o","l","l","a","r">>
    [] c = "%"      -> <<"p","e","r","c","e","n","t">>
    [] OTHER        -> <<c>>

\* kept by the default remove pattern /[^\w\s$*_+~.()'"!\-:@]+/g
SlugKept(c) ==
  \/ IsAlnum(c)
  \/ IsSpace(c)
  \/ c \in {"_", "$", "*", "+", "~", ".", "(", ")", "'", "!", "-", ":", "@"}

\* one character through charMap, the replacement test and the remove pattern
SlugChar(c, replacement) ==
  SelectSeq(IF SlugCharMap(c) = replacement THEN <<" ">> ELSE SlugCharMap(c), SlugKept)

\* the characters of s, each through SlugChar, joined
SlugJoin[s \in Str, replacement \in Str] ==
  IF s = <<>> THEN <<>>
  ELSE SlugChar(Head(s), replacement) \o SlugJoin[Tail(s), replacement]

\* slugify(s, {replacement, lower: true, strict, trim: true})
Slugify(s, replacement, strict) ==
  LET joined   == SlugJoin[s, replacement]
      stricted == IF strict
                    THEN SelectSeq(joined, LAMBDA c : IsAlnum(c) \/ IsSpace(c))
                    ELSE joined
  IN  ToLower[CollapseSpaces[Trim[stricted], replacement]]

(***************************************************************************)
(* The stripping patterns                                                  *)
(***************************************************************************)
IsOpenBracket(c) == c \in {"(", "["}

IsCloseBracket(c) == c \in {")", "]"}

\* first index >= i of s that is not whitespace (Len(s)+1 when none)
SkipSpaces[s \in Str, i \in Nat] ==
  IF i <= Len(s) /\ IsSpace(s[i]) THEN SkipSpaces[s, i + 1] ELSE i

\* first index > j of s holding a closing bracket (0 when none)
FirstClose[s \in Str, j \in Nat] ==
  IF \E k \in (j + 1)..Len(s) : IsCloseBracket(s[k])
    THEN CHOOSE k \in (j + 1)..Len(s) :
           /\ IsCloseBracket(s[k])
           /\ \A m \in (j + 1)..(k - 1) : ~IsCloseBracket(s[m])
    ELSE 0

\* the end of the match of /\s*[\(\[].*?[\)\]]/ that starts at index i (0: none)
BracketMatchEnd[s \in Str, i \in Nat] ==
  IF SkipSpaces[s, i] <= Len(s) /\ IsOpenBracket(s[SkipSpaces[s, i]])
    THEN FirstClose[s, SkipSpaces[s, i]]
    ELSE 0

\* s.replace(/\s*[\(\[].*?[\)\]]/g, "") from index i on
StripBracketsFrom[s \in Str, i \in Nat] ==
  IF i > Len(s) THEN <<>>
  ELSE IF BracketMatchEnd[s, i] # 0
    THEN StripBracketsFrom[s, BracketMatchEnd[s, i] + 1]
    ELSE <<s[i]>> \o StripBracketsFrom[s, i + 1]

StripBrackets[s \in Str] == StripBracketsFrom[s, 1]

DropDigits[s \in Str] ==
  IF s # <<>> /\ Head(s) \in Digits THEN DropDigits[Tail(s)] ELSE s

DropSeparators[s \in Str] ==
  IF s # <<>> /\ (IsSpace(Head(s)) \/ Head(s) \in {".", "-", "_"})
    THEN DropSeparators[Tail(s)]
    ELSE s

\* s.replace(/^\d+[\s\.\-_]*/, "")
StripLeadingNumber[s \in Str] ==
  IF s # <<>> /\ Head(s) \in Digits THEN DropSeparators[DropDigits[s]] ELSE s

(***************************************************************************)
(* normalizeString, normalizeForMatch, stripExtra, getNormalizedVariants   *)
(***************************************************************************)
\* s.replace(/[\/\.\-_&]/g, " ")
SeparatorsToSpaces[s \in Str] ==
  [i \in DOMAIN s |-> IF s[i] \in {"/", ".", "-", "_", "&"} THEN " " ELSE s[i]]

\* s.replace(/[^a-z0-9]/g, " ")
SymbolsToSpaces[s \in Str] ==
  [i \in DOMAIN s |-> IF IsLowerAlnum(s[i]) THEN s[i] ELSE " "]

\* a normalizeString whose stripNumbers is always on
normalizeStringNumbersStripped(str, stripExtraFlag, stripNumbers) ==
  LET s1 == IF stripExtraFlag THEN StripBrackets[str] ELSE str
      s3 == SeparatorsToSpaces[SelectSeq(StripLeadingNumber[s1], LAMBDA c : c # "%")]
      s4 == Slugify(s3, <<" ">>, FALSE)
  IN  Trim[CollapseSpaces[SymbolsToSpaces[s4], <<" ">>]]

\* normalizeString(str, stripExtra, stripNumbers)
normalizeString(str, stripExtraFlag, stripNumbers) ==
  LET s1 == IF stripExtraFlag THEN StripBrackets[str] ELSE str
      s2 == IF stripNumbers THEN StripLeadingNumber[s1] ELSE s1
      s3 == SeparatorsToSpaces[SelectSeq(s2, LAMBDA c : c # "%")]
      s4 == Slugify(s3, <<" ">>, FALSE)
  IN  Trim[CollapseSpaces[SymbolsToSpaces[s4], <<" ">>]]

\* one character of normalizeForMatch's loop
MatchChar(c) ==
  IF Len(Slugify(<<c>>, <<>>, TRUE)) > 0 THEN Slugify(<<c>>, <<>>, TRUE)
  ELSE IF IsUnicodeAlnum(c) THEN <<c>>
  ELSE <<>>

\* result += ... over the characters of s
MatchChars[s \in Str] ==
  IF s = <<>> THEN <<>> ELSE MatchChar(Head(s)) \o MatchChars[Tail(s)]

\* normalizeForMatch(str)
normalizeForMatch(str) == MatchChars[ToLower[str]]

\* stripExtra(str)
stripExtra(str) == Trim[StripLeadingNumber[StripBrackets[str]]]

\* s.replace(/and/g, "")
RemoveAnd[s \in Str] ==
  IF Len(s) < 3 THEN s
  ELSE IF SubSeq(s, 1, 3) = <<"a","n","d">>
    THEN RemoveAnd[SubSeq(s, 4, Len(s))]
    ELSE <<Head(s)>> \o RemoveAnd[Tail(s)]

\* the variants array before deduplication, from norm and stripped
VariantsOf[norm \in Str, stripped \in Str] ==
  <<norm>>
  \o (IF RemoveAnd[norm] # norm /\ Len(RemoveAnd[norm]) >= 3
        THEN <<RemoveAnd[norm]>> ELSE <<>>)
  \o (IF stripped # norm THEN <<stripped>> ELSE <<>>)
  \o (IF stripped # norm /\ RemoveAnd[stripped] # stripped
         /\ Len(RemoveAnd[stripped]) >= 3
        THEN <<RemoveAnd[stripped]>> ELSE <<>>)

\* getNormalizedVariants(str)
getNormalizedVariants(str) ==
  Dedupe(VariantsOf[normalizeForMatch(str), normalizeForMatch(stripExtra(str))])

(***************************************************************************)
(* Paths.  A file is [dir |-> <<segment, ...>>, name |-> entry name]; the  *)
(* path string of a directory is "/" followed by its segments joined by    *)
(* "/".                                                                    *)
(***************************************************************************)
DirString[dir \in Seq(Str)] ==
  IF dir = <<>> THEN <<>> ELSE <<"/">> \o Head(dir) \o DirString[Tail(dir)]

\* index of the last "." of name (0 when none)
LastDot[name \in Str] ==
  IF \E i \in DOMAIN name : name[i] = "."
    THEN CHOOSE i \in DOMAIN name :
           name[i] = "." /\ \A j \in (i + 1)..Len(name) : name[j] # "."
    ELSE 0

\* path.extname(name): from the last dot on; "" when there is none or it leads
ExtName[name \in Str] ==
  IF LastDot[name] <= 1 THEN <<>> ELSE SubSeq(name, LastDot[name], Len(name))

\* path.basename(name, ext)
BaseName[name \in Str, ext \in Str] ==
  IF /\ ext # <<>>
     /\ Len(name) > Len(ext)
     /\ SubSeq(name, Len(name) - Len(ext) + 1, Len(name)) = ext
    THEN SubSeq(name, 1, Len(name) - Len(ext))
    ELSE name

ExtFlac == <<".","f","l","a","c">>

ExtWav == <<".","w","a","v">>

ExtMp3 == <<".","m","p","3">>

\* const extensions = [".mp3", ".m4a", ".flac", ".wav", ".ogg", ".opus"]
ScanExtensions ==
  { ExtMp3, <<".","m","4","a">>, ExtFlac, ExtWav,
    <<".","o","g","g">>, <<".","o","p","u","s">> }

NoMatch == [matched |-> FALSE, score |-> 0]

(***************************************************************************)
(* Scoring Matcher of the folder scan (searchRecursiveAll, one entry)      *)
(***************************************************************************)
\* path.basename(entry.name, ext) with ext the lower-cased extension
NameWithoutExt(f) == BaseName[f.name, ToLower[ExtName[f.name]]]

\* the normalized keys searchRecursiveAll derives from the title, the artist
\* and one entry name
FolderKeys(title, artist, name) ==
  [titleNorm        |-> normalizeString(title, FALSE, FALSE),
   titleNoExtra     |-> normalizeString(title, TRUE, FALSE),
   titleNoSpace     |-> RemoveSpaces(normalizeString(title, FALSE, FALSE)),
   artistNorm       |-> normalizeString(artist, FALSE, FALSE),
   nameNorm         |-> normalizeString(name, FALSE, FALSE),
   nameNoExtra      |-> normalizeString(name, TRUE, FALSE),
   nameNoNum        |-> normalizeString(name, FALSE, TRUE),
   nameNoExtraNoNum |-> normalizeString(name, TRUE, TRUE),
   nameNoSpace      |-> RemoveSpaces(normalizeString(name, FALSE, FALSE))]

\* the last rule of the chain: the name holds the artist key and a title key
ArtistAssisted(k) ==
  /\ k.artistNorm # <<>>
  /\ Includes[k.nameNorm, k.artistNorm]
  /\ \/ Includes[k.nameNorm, k.titleNorm]
     \/ Includes[k.nameNorm, k.titleNoExtra]

\* a chain whose space-blind rule takes a title of any length
RuleChainNoFloor(k) ==
  IF k.nameNorm = k.titleNorm THEN 100
  ELSE IF k.nameNoExtra = k.titleNoExtra THEN 75
  ELSE IF k.nameNoNum = k.titleNorm THEN 80
  ELSE IF k.nameNoExtraNoNum = k.titleNoExtra THEN 70
  ELSE IF /\ Len(k.titleNoExtra) >= 4
          /\ \/ Includes[k.nameNoExtra, k.titleNoExtra]
             \/ Includes[k.nameNoNum, k.titleNoExtra]
             \/ Includes[k.nameNoExtraNoNum, k.titleNoExtra]
    THEN 50
  ELSE IF \/ k.nameNoSpace = k.titleNoSpace
          \/ Includes[k.nameNoSpace, k.titleNoSpace]
          \/ Includes[k.titleNoSpace, k.nameNoSpace]
    THEN 30
  ELSE IF ArtistAssisted(k) THEN 85
  ELSE 0

\* a chain of independent ifs: every rule that fires adds its score
RuleChainSummed(k) ==
  (IF k.nameNorm = k.titleNorm THEN 100 ELSE 0)
  + (IF k.nameNoExtra = k.titleNoExtra THEN 75 ELSE 0)
  + (IF k.nameNoNum = k.titleNorm THEN 80 ELSE 0)
  + (IF k.nameNoExtraNoNum = k.titleNoExtra THEN 70 ELSE 0)
  + (IF /\ Len(k.titleNoExtra) >= 4
        /\ \/ Includes[k.nameNoExtra, k.titleNoExtra]
           \/ Includes[k.nameNoNum, k.titleNoExtra]
           \/ Includes[k.nameNoExtraNoNum, k.titleNoExtra]
       THEN 50 ELSE 0)
  + (IF /\ Len(k.titleNoSpace) >= 5
        /\ \/ k.nameNoSpace = k.titleNoSpace
           \/ Includes[k.nameNoSpace, k.titleNoSpace]
           \/ Includes[k.titleNoSpace, k.nameNoSpace]
       THEN 30 ELSE 0)
  + (IF ArtistAssisted(k) THEN 85 ELSE 0)

\* the if / else-if chain on the keys k: the base score of the first rule that
\* fires, 0 when none does
RuleChain(k) ==
  IF k.nameNorm = k.titleNorm THEN 100
  ELSE IF k.nameNoExtra = k.titleNoExtra THEN 75
  ELSE IF k.nameNoNum = k.titleNorm THEN 80
  ELSE IF k.nameNoExtraNoNum = k.titleNoExtra THEN 70
  ELSE IF /\ Len(k.titleNoExtra) >= 4
          /\ \/ Includes[k.nameNoExtra, k.titleNoExtra]
             \/ Includes[k.nameNoNum, k.titleNoExtra]
             \/ Includes[k.nameNoExtraNoNum, k.titleNoExtra]
    THEN 50
  ELSE IF /\ Len(k.titleNoSpace) >= 5
          /\ \/ k.nameNoSpace = k.titleNoSpace
             \/ Includes[k.nameNoSpace, k.titleNoSpace]
             \/ Includes[k.titleNoSpace, k.nameNoSpace]
    THEN 30
  ELSE IF ArtistAssisted(k) THEN 85
  ELSE 0

\* the base score of entry name for the descriptor
FolderRule(title, artist, name) == RuleChain(FolderKeys(title, artist, name))

\* the bonuses added to a matched entry
FolderBonus(album, dir, ext) ==
  (IF /\ normalizeString(album, FALSE, FALSE) # <<>>
      /\ Includes[ToLower[DirString[dir]], normalizeString(album, FALSE, FALSE)]
     THEN 20 ELSE 0)
  + (IF ext = ExtFlac \/ ext = ExtWav THEN 5 ELSE 0)

\* if (matched) matches.push({path, score}) for an entry of extension ext
\* whose name got the base score base
FolderEntry(ext, base, album, dir) ==
  IF ext \notin ScanExtensions \/ base = 0 THEN NoMatch
  ELSE [matched |-> TRUE, score |-> base + FolderBonus(album, dir, ext)]

\* const ext = path.extname(entry.name).toLowerCase();
\* const nameWithoutExt = path.basename(entry.name, ext)
FolderEntryOf(ext, title, artist, album, f) ==
  FolderEntry(ext, FolderRule(title, artist, BaseName[f.name, ext]), album, f.dir)

\* one file entry of a directory: skipped, unmatched, or matched with its score
FolderScore(title, artist, album, f) ==
  FolderEntryOf(ToLower[ExtName[f.name]], title, artist, album, f)

(***************************************************************************)
(* Scoring Matcher of the index (findFileFromSpotifyDb, one path)          *)
(***************************************************************************)
\* score of one (titleVar, fileVar) pair in the double loop, 0 when none
IndexPairScore(titleVar, fileVar) ==
  IF fileVar = titleVar THEN 100
  ELSE IF Len(titleVar) >= 3 /\ Len(fileVar) >= 3
    THEN IF Includes[fileVar, titleVar] THEN 85
         ELSE IF Includes[titleVar, fileVar] THEN 80
         ELSE 0
    ELSE 0

SetMax(S) == CHOOSE m \in S : \A n \in S : n <= m

\* what findFileFromSpotifyDb derives from its arguments and one path
IndexKeys(title, artist, f) ==
  [titleVariants |-> getNormalizedVariants(title),
   fileVariants  |-> getNormalizedVariants(BaseName[f.name, ExtName[f.name]]),
   artistNorm    |-> IF artist # <<>> THEN normalizeForMatch(artist) ELSE <<>>,
   ext           |-> ToLower[ExtName[f.name]]]

\* the score the double loop leaves, 0 when nothing matched
IndexLoopScore(k) ==
  SetMax({0} \cup { IndexPairScore(k.titleVariants[i], k.fileVariants[j]) :
                      i \in DOMAIN k.titleVariants, j \in DOMAIN k.fileVariants })

\* if (!matched && artistNorm): the file name holds the artist and a title variant
IndexByArtist(k) ==
  /\ k.artistNorm # <<>>
  /\ \E i \in DOMAIN k.titleVariants :
       /\ Includes[k.fileVariants[1], k.artistNorm]
       /\ Includes[k.fileVariants[1], k.titleVariants[i]]

\* the base score of a path before the bonuses, 0 when unmatched
IndexBase(k) ==
  IF IndexLoopScore(k) > 0 THEN IndexLoopScore(k)
  ELSE IF IndexByArtist(k) THEN 90
  ELSE 0

IndexBonus(k) ==
  (IF k.artistNorm # <<>> /\ Includes[k.fileVariants[1], k.artistNorm] THEN 20 ELSE 0)
  + (IF k.ext = ExtFlac \/ k.ext = ExtWav THEN 5 ELSE 0)

\* if (matched) matches.push({path: filePath, score})
IndexEntry(k) ==
  IF IndexBase(k) = 0 THEN NoMatch
  ELSE [matched |-> TRUE, score |-> IndexBase(k) + IndexBonus(k)]

IndexScore(title, artist, f) == IndexEntry(IndexKeys(title, artist, f))

(***************************************************************************)
(* Selection: matches.sort((a, b) => b.score - a.score); matches[0]        *)
(***************************************************************************)
\* a sort that puts first the latest match of highest score
BestMatchLatest(matches) ==
  IF matches = <<>> THEN NotFound
  ELSE Found(matches[CHOOSE i \in DOMAIN matches :
                       /\ \A j \in DOMAIN matches : matches[j].score <= matches[i].score
                       /\ \A j \in (i + 1)..Len(matches) :
                            matches[j].score # matches[i].score].path)

\* the stable descending sort puts first the earliest match of highest score
BestMatch(matches) ==
  IF matches = <<>> THEN NotFound
  ELSE Found(matches[CHOOSE i \in DOMAIN matches :
                       /\ \A j \in DOMAIN matches : matches[j].score <= matches[i].score
                       /\ \A j \in 1..(i - 1) : matches[j].score # matches[i].score].path)

\* the matches array a matcher fills from a list of files, in order; scores
\* gives the matcher's result for each (descriptor, file)
MatchesOf(scores, info, files) ==
  LET F[i \in 0..Len(files)] ==
        IF i = 0 THEN <<>>
        ELSE F[i - 1]
             \o (IF scores[<<info, files[i]>>].matched
                   THEN <<[path |-> files[i], score |-> scores[<<info, files[i]>>].score]>>
                   ELSE <<>>)
  IN  F[Len(files)]

(***************************************************************************)
(* parseLocalTrackInfo.  A locator is a string.                            *)
(***************************************************************************)
LocalPrefix == <<"s","p","o","t","i","f","y",":","l","o","c","a","l",":">>

\* String.prototype.startsWith
StartsWith[s \in Str, p \in Str] == Len(p) <= Len(s) /\ SubSeq(s, 1, Len(p)) = p

\* s.replace(p, ""): s without the first occurrence of p
RemoveFirst[s \in Str, p \in Str] ==
  IF Len(s) < Len(p) THEN s
  ELSE IF SubSeq(s, 1, Len(p)) = p THEN SubSeq(s, Len(p) + 1, Len(s))
  ELSE <<Head(s)>> \o RemoveFirst[Tail(s), p]

\* s.split(":")
Split[s \in Str] ==
  IF ":" \notin Range(s) THEN <<s>>
  ELSE LET i == CHOOSE j \in DOMAIN s : s[j] = ":" /\ \A k \in 1..(j - 1) : s[k] # ":"
       IN  <<SubSeq(s, 1, i - 1)>> \o Split[SubSeq(s, i + 1, Len(s))]

\* a thrown URIError, as the result of a decoding
Throws == <<"URIError">>

HexDigits == Digits \cup {"A","B","C","D","E","F","a","b","c","d","e","f"}

\* the character a %XX escape decodes to
PercentChar(h1, h2) ==
  CASE <<h1, ToLowerChar(h2)>> = <<"2","0">> -> " "
    [] <<h1, ToLowerChar(h2)>> = <<"2","8">> -> "("
    [] <<h1, ToLowerChar(h2)>> = <<"2","9">> -> ")"
    [] <<h1, ToLowerChar(h2)>> = <<"2","b">> -> "+"
    [] <<h1, ToLowerChar(h2)>> = <<"2","5">> -> "%"
    [] <<h1, ToLowerChar(h2)>> = <<"3","a">> -> ":"
    [] OTHER -> "?"

\* the first hex digit of a byte that is not ASCII
HighHex == {"8","9","A","B","C","D","E","F","a","b","c","d","e","f"}

\* the UTF-8 encoding of e-acute, the one multi-byte sequence of the model
EacuteEscape == <<"%","c","3","%","a","9">>

\* the decoding of s, with the token "URIError" where an escape is malformed
\* or its bytes are not UTF-8
DecodeEscapes[s \in Str] ==
  IF s = <<>> THEN <<>>
  ELSE IF Head(s) # "%" THEN <<Head(s)>> \o DecodeEscapes[Tail(s)]
  ELSE IF ~(Len(s) >= 3 /\ s[2] \in HexDigits /\ s[3] \in HexDigits)
    THEN <<"URIError">>
  ELSE IF s[2] \notin HighHex
    THEN <<PercentChar(s[2], s[3])>> \o DecodeEscapes[SubSeq(s, 4, Len(s))]
  ELSE IF Len(s) >= 6 /\ ToLower[SubSeq(s, 1, 6)] = EacuteEscape
    THEN <<"eacute">> \o DecodeEscapes[SubSeq(s, 7, Len(s))]
  ELSE <<"URIError">>

\* decodeURIComponent: Throws on a malformed escape
DecodeURIComponent[s \in Str] ==
  IF "URIError" \in Range(DecodeEscapes[s]) THEN Throws ELSE DecodeEscapes[s]

\* a decoding that leaves "+" alone
DecodeFieldPlusKept(s) == DecodeURIComponent[s]

\* decodeURIComponent(field.replace(/\+/g, " "))
DecodeField(s) ==
  DecodeURIComponent[[i \in DOMAIN s |-> IF s[i] = "+" THEN " " ELSE s[i]]]

\* parseLocalTrackInfo(trackId): null, a thrown error, or {artist, album, title}
DescriptorOf(parts) ==
  IF Len(parts) < 3 THEN [kind |-> "null"]
  ELSE LET a == DecodeField(parts[1])
           b == DecodeField(parts[2])
           t == DecodeField(parts[3])
       IN  IF a = Throws \/ b = Throws \/ t = Throws THEN [kind |-> "throws"]
           ELSE [kind |-> "ok", artist |-> a, album |-> b, title |-> t]

\* a parser that does not look at the prefix
parseAnyPrefix(trackId) ==
  DescriptorOf(Split[RemoveFirst[trackId, LocalPrefix]])

parseLocalTrackInfo(trackId) ==
  IF ~StartsWith[trackId, LocalPrefix] THEN [kind |-> "null"]
  ELSE DescriptorOf(Split[RemoveFirst[trackId, LocalPrefix]])

(***************************************************************************)
(* Directory Scanner (searchRecursiveAll): the file entries it reaches,    *)
(* in the order it scores them.  files lists what is on disk, in the order *)
(* readdirSync reports entries.                                            *)
(***************************************************************************)
MaxDepth == 5

DenyList ==
  { <<"n","o","d","e","_","m","o","d","u","l","e","s">>,
    <<"L","i","b","r","a","r","y">>,
    <<"S","y","s","t","e","m">>,
    <<"A","p","p","l","i","c","a","t","i","o","n","s">> }

IsPrefix(d, e) == Len(d) <= Len(e) /\ SubSeq(e, 1, Len(d)) = d

\* names of the subdirectories of dir, in entry order
SubDirs(dir, files) ==
  LET below == SelectSeq(files, LAMBDA f : IsPrefix(dir, f.dir) /\ Len(f.dir) > Len(dir))
  IN  Dedupe([i \in DOMAIN below |-> below[i].dir[Len(dir) + 1]])

\* entry.name.startsWith(".") or one of the skipped directory names
Skipped(name) == Head(name) = "." \/ name \in DenyList

\* a scan that gives up on the whole folder when one directory below it
\* cannot be read
ScanDirFailFast(dir, depth, files, unreadable) ==
  IF \E d \in unreadable : IsPrefix(dir, d) THEN <<>>
  ELSE SelectSeq(files, LAMBDA f : IsPrefix(dir, f.dir))

\* a scan without the depth test
ScanDirUnbounded(dir, depth, files, unreadable) ==
  LET Scan[d \in Seq(Str)] ==
        IF d \in unreadable THEN <<>>
        ELSE LET Sub[names \in Seq(Str)] ==
                   IF names = <<>> THEN <<>>
                   ELSE (IF Skipped(Head(names)) THEN <<>>
                         ELSE Scan[Append(d, Head(names))])
                        \o Sub[Tail(names)]
             IN  SelectSeq(files, LAMBDA f : f.dir = d) \o Sub[SubDirs(d, files)]
  IN  Scan[dir]

\* searchRecursiveAll(dir, ..., depth): the files of dir, then of each
\* subdirectory that is not skipped, one level deeper; a directory whose
\* readdirSync throws contributes nothing (try / catch around the body).
\* unreadable holds those directories.
ScanDir(dir, depth, files, unreadable) ==
  LET Scan[d \in Seq(Str), n \in Nat] ==
        IF n > MaxDepth \/ d \in unreadable THEN <<>>
        ELSE LET Sub[names \in Seq(Str)] ==
                   IF names = <<>> THEN <<>>
                   ELSE (IF Skipped(Head(names)) THEN <<>>
                         ELSE Scan[Append(d, Head(names)), n + 1])
                        \o Sub[Tail(names)]
             IN  SelectSeq(files, LAMBDA f : f.dir = d) \o Sub[SubDirs(d, files)]
  IN  Scan[dir, depth]

\* for (const folder of folders) searchRecursiveAll(folder, ..., 0)
ScanFolders(folders, files, unreadable) ==
  LET F[fs \in Seq(Seq(Str))] ==
        IF fs = <<>> THEN <<>>
        ELSE ScanDir(Head(fs), 0, files, unreadable) \o F[Tail(fs)]
  IN  F[folders]

(***************************************************************************)
(* The universe of the state machine                                       *)
(***************************************************************************)
\* last value of the modification-time clock
MaxClock == 2

\* user profiles under the Spotify Users directory, in readdirSync order
ProfileSeq == <<"u1", "u2">>

Profiles == Range(ProfileSeq)

RootM == << <<"M">> >>

RootN == << <<"N">> >>

FileSong == [dir |-> RootM, name |-> <<"S","o","n","g",".","m","p","3">>]

FileRunLive ==
  [dir |-> RootN, name |-> <<"R","u","n"," ","(","L","i","v","e",")",".","f","l","a","c">>]

\* the audio files that can exist, in the order readdirSync lists them
FileSeq == <<FileSong, FileRunLive>>

FileUniverse == Range(FileSeq)

\* what Spotify can write into the index file of a profile
IndexContents(p) ==
  IF p = "u1" THEN { <<FileSong>>, <<FileRunLive, FileSong>> }
              ELSE { <<FileRunLive>> }

Loc(artist, album, title) ==
  LocalPrefix \o artist \o <<":">> \o album \o <<":">> \o title \o <<":","1","2","3">>

LocSong == Loc(<<"E","d">>, <<"L","p">>, <<"S","o","n","g">>)

LocRun == Loc(<<"E","d">>, <<"L","p">>, <<"R","u","n">>)

LocStream ==
  <<"s","p","o","t","i","f","y",":","t","r","a","c","k",":","4","u","L","U">>

Locators == {LocSong, LocRun, LocStream}

(***************************************************************************)
(* The inputs of the matcher specification: one descriptor and two         *)
(* candidate files, named after the title in the ways files are named.     *)
(***************************************************************************)
ArtistEd == <<"E","d">>

AlbumLp == <<"L","p">>

\* form-encoded titles: "Run", "Song", "Up Town", "Up To", "(Intro)", "!!"
MatchTitles ==
  { <<"R","u","n">>,
    <<"S","o","n","g">>,
    <<"U","p","+","T","o","w","n">>,
    <<"U","p","+","T","o">>,
    <<"%","2","8","I","n","t","r","o","%","2","9">>,
    <<"!","!">> }

MatchLocators == { Loc(ArtistEd, AlbumLp, t) : t \in MatchTitles }

\* the directory of the album inside the configured folder
DirAlbum == << <<"M">>, <<"L","p">> >>

NamePrefixes == { <<>>, <<"0","1","."," ">>, <<"E","d"," ","-"," ">> }

NameCores(title) ==
  { title, title \o <<" ","M","i","x">>, RemoveSpaces(title), <<"-","-","-">> }

NameSuffixes == { <<>>, <<" ","(","L","i","v","e",")">> }

\* where a candidate lies and what format it has
Placements == { <<RootM, ExtMp3>>, <<RootM, ExtFlac>>, <<DirAlbum, ExtFlac>> }

\* the candidate files for a (decoded) title
MatchFiles(title) ==
  { [dir |-> pl[1], name |-> pre \o core \o suf \o pl[2]] :
      pre \in NamePrefixes, core \in NameCores(title), suf \in NameSuffixes,
      pl \in Placements }

(***************************************************************************)
(* The inputs of the containment specification: names that hold the title  *)
(* key, names whose key is a part of the title key, and names where the    *)
(* title stands inside a qualifier.                                        *)
(***************************************************************************)
ContainTitles == { <<"S","o","n","g">>, <<"U","p","+","T","o","w","n">> }

ContainLocators == { Loc(ArtistEd, AlbumLp, t) : t \in ContainTitles }

\* "Son", "Town", "Mix (Song)", "Song Mix", "01. Song Mix", "Up Town Mix",
\* "01. Mix (Up Town)", "Other"
ContainNames ==
  { <<"S","o","n">>,
    <<"T","o","w","n">>,
    <<"M","i","x"," ","(","S","o","n","g",")">>,
    <<"S","o","n","g"," ","M","i","x">>,
    <<"0","1","."," ","S","o","n","g"," ","M","i","x">>,
    <<"U","p"," ","T","o","w","n"," ","M","i","x">>,
    <<"0","1","."," ","M","i","x"," ","(","U","p"," ","T","o","w","n",")">>,
    <<"O","t","h","e","r">> }

ContainFiles ==
  { [dir |-> pl[1], name |-> n \o pl[2]] : n \in ContainNames, pl \in Placements }

(***************************************************************************)
(* The inputs of the scan specification: files named after the title in    *)
(* the two configured folders, at depths 0 to 6 and in a skipped directory.*)
(***************************************************************************)
NameSong == <<"S","o","n","g",".","m","p","3">>

\* the directory n levels below M: M/a/b/c/d/e/f
DirDeep(n) == RootM \o SubSeq(<< <<"a">>, <<"b">>, <<"c">>, <<"d">>, <<"e">>, <<"f">> >>, 1, n)

ScanPool ==
  { [dir |-> RootM, name |-> NameSong],
    [dir |-> RootM, name |-> <<"0","1","."," ">> \o NameSong],
    [dir |-> DirDeep(1), name |-> NameSong],
    [dir |-> DirDeep(5), name |-> NameSong],
    [dir |-> DirDeep(6), name |-> NameSong],
    [dir |-> Append(RootM, <<"n","o","d","e","_","m","o","d","u","l","e","s">>),
     name |-> NameSong],
    [dir |-> RootN, name |-> NameSong],
    [dir |-> Append(RootN, <<"a">>), name |-> <<"S","o","n","g",".","f","l","a","c">>] }

\* what is on disk, in readdirSync order: two or three files of the pool
ScanDisks ==
  { d \in (ScanPool \X ScanPool) \cup (ScanPool \X ScanPool \X ScanPool) :
      \A i \in DOMAIN d : \A j \in DOMAIN d : i # j => d[i] # d[j] }

(***************************************************************************)
(* The inputs of the skip specification: hidden files and directories,     *)
(* skipped directory names, and extensions in and out of the scan's list.  *)
(***************************************************************************)
SongAs(ext) == <<"S","o","n","g",".">> \o ext

SkipDirs ==
  { RootM,
    Append(RootM, <<".","h">>),
    Append(RootM, <<"n","o","d","e","_","m","o","d","u","l","e","s">>),
    Append(RootM, <<"L","i","b","r","a","r","y">>),
    Append(RootM, <<"a">>) \o << <<"S","y","s","t","e","m">> >>,
    Append(RootM, <<"A","p","p","l","i","c","a","t","i","o","n","s">>) }

SkipPool ==
  { [dir |-> d, name |-> NameSong] : d \in SkipDirs }
    \cup { [dir |-> RootM, name |-> n] :
             n \in { <<".">> \o NameSong, SongAs(<<"M","P","3">>), SongAs(<<"o","p","u","s">>),
                     SongAs(<<"a","a","c">>), SongAs(<<"t","x","t">>), <<"S","o","n","g">> } }

\* what is on disk, in readdirSync order: one or two files of the pool
SkipDisks ==
  { <<f>> : f \in SkipPool }
    \cup { d \in SkipPool \X SkipPool : d[1] # d[2] }

(***************************************************************************)
(* The inputs of the parser specification: a prefix, then one to four      *)
(* fields joined by ":".                                                   *)
(***************************************************************************)
StreamPrefix == <<"s","p","o","t","i","f","y",":","t","r","a","c","k",":">>

ParsePrefixes == { LocalPrefix, StreamPrefix, <<>> }

\* "", "Ed", "A+B", "A%20B", "%2B%3A", "%C3%A9", "100%", "%E9"
ParseFields ==
  { <<>>,
    <<"E","d">>,
    <<"A","+","B">>,
    <<"A","%","2","0","B">>,
    <<"%","2","B","%","3","A">>,
    <<"%","C","3","%","A","9">>,
    <<"1","0","0","%">>,
    <<"%","E","9">> }

ParseDuration == <<"3","0">>

\* the field lists: one, two or three fields, or three and the duration
ParseSegs ==
  UNION { [1..n -> ParseFields] : n \in 1..3 }
    \cup { Append(segs, ParseDuration) : segs \in [1..3 -> ParseFields] }

JoinColon[segs \in Seq(Str)] ==
  IF Len(segs) = 1 THEN Head(segs)
  ELSE Head(segs) \o <<":">> \o JoinColon[Tail(segs)]

ParsePool ==
  { [loc |-> pre \o JoinColon[segs], prefix |-> pre, segs |-> segs] :
      pre \in ParsePrefixes, segs \in ParseSegs }

ParseLocators == { x.loc : x \in ParsePool }

AllLocators == Locators \cup MatchLocators \cup ParseLocators

(***************************************************************************)
(* The inputs of the fault specification: files named after one title in   *)
(* two configured folders, directories that cannot be read, index files    *)
(* that cannot be read.                                                    *)
(***************************************************************************)
DirEp == << <<"M">>, <<"E","p">> >>

FileAlbumSong == [dir |-> DirAlbum, name |-> <<"S","o","n","g",".","f","l","a","c">>]

FileEpSong == [dir |-> DirEp, name |-> <<"S","o","n","g",".","m","p","3">>]

FileNSong == [dir |-> RootN, name |-> <<"S","o","n","g",".","m","p","3">>]

\* in the order readdirSync lists them
FaultSeq == <<FileSong, FileAlbumSong, FileEpSong, FileNSong>>

FaultFiles == Range(FaultSeq)

FaultDirs == {RootM, DirAlbum, DirEp, RootN}

\* the index file of profile p: absent, listing one file, or unreadable
FaultIndex(p) ==
  { [present |-> FALSE, mtime |-> 0, paths |-> <<>>, readable |-> TRUE] }
    \cup { [present |-> TRUE, mtime |-> 1,
            paths |-> IF p = "u1" THEN <<FileSong>> ELSE <<FileNSong>>,
            readable |-> r] : r \in BOOLEAN }

NoCache == [valid |-> FALSE, paths |-> <<>>]

NoRet == [kind |-> "none"]

NoCall == [op |-> "none"]

\* no lock file
NoFile == [present |-> FALSE, pid |-> 0]

\* the sidecar processes
Pids == {1, 2}

\* no sidecar process has started
NoProcs == [p \in Pids |-> [pc |-> "off", seen |-> 0]]

\* a cover URL, or null
NoUrl == [given |-> FALSE, of |-> NotFound]

\* result.url of uploadCover for the cover inside the file at filePath
UrlOf(filePath) == [given |-> TRUE, of |-> Found(filePath)]

\* track.artworkUrl of a track that has one
ArtworkUrl == [given |-> TRUE, of |-> NotFound]

\* the tracks the player reports: two local ones and a streamed one
TrackSong == [id |-> LocSong, source |-> "local", artworkUrl |-> NoUrl]

TrackRun == [id |-> LocRun, source |-> "local", artworkUrl |-> ArtworkUrl]

TrackStream == [id |-> LocStream, source |-> "spotify", artworkUrl |-> ArtworkUrl]

CoverTracks == {TrackSong, TrackRun, TrackStream}

\* metadata.common.picture?.[0] of the file: Song.mp3 carries a picture,
\* Run (Live).flac none
HasPicture(filePath) == filePath = FileSong

\* an entry of coverUrlCache; stale is a ghost: the lookup that stored the
\* entry had started before a change notification that ran before the store
NoEntry == [has |-> FALSE, url |-> NoUrl, stale |-> FALSE]

\* new Map()
NoCovers == [id \in { t.id : t \in CoverTracks } |-> NoEntry]

\* the updatePresence runs that can be in flight
Callers == {1, 2}

NoLookup ==
  [pc |-> "idle", track |-> TrackStream, filePath |-> NotFound, stale |-> FALSE,
   value |-> NoUrl]

NoLookups == [c \in Callers |-> NoLookup]

VARIABLES
  usersDir,                \* the Spotify Users directory exists
  bnk,                     \* per profile: its local-files.bnk
  disk,                    \* the audio files on disk, in readdir order
  musicFolders,            \* config.musicFolders
  trackIds,                \* the locators the host asks about
  denied,                  \* the directories readdirSync fails on
  watchers,                \* LocalFileFinder.watchers: the folders with an open handle
  listeners,               \* LocalFileFinder.listeners, in subscription order
  issued,                  \* the unsubscribe functions onChange has returned
  http,                    \* the HTTP exchanges of the upload in flight, in order
  lockFile,                \* the sidecar lock file: NoFile or the pid written in it
  procs,                   \* per sidecar process: its position in acquireLock
  uploadService,           \* PresenceService.uploadService is set
  coverUrlCache,           \* PresenceService.coverUrlCache, per track id
  lookups,                 \* per updatePresence run: its getCoverUrl call
  spotifyFilePathsCache,   \* the module-level cache (NoCache is null)
  lastBnkMtime,
  bnkFileWatchersStarted,
  pending,                 \* a watch notification waits on the event loop
  clock,                   \* source of modification times
  pc,                      \* "idle", or "reading": a rebuild has read the index
  call,                    \* the handler in flight
  acc,                     \* paths, the rebuild's local array
  ret,                     \* what the handler that just returned gave
  inval,                   \* ghost: clearCaches ran and no call began since
  statAtLoad,              \* ghost: the index files and their mtimes at the last read
  flight,                  \* ghost: the disk changed during the rebuild in flight
  noteAt                   \* ghost: "queued" while a notification raised during a
                           \* rebuild waits, "delivered" once its callback ran

vars ==
  <<usersDir, bnk, disk, musicFolders, trackIds, denied, watchers, listeners, issued,
    http, lockFile, procs, uploadService, coverUrlCache, lookups,
    spotifyFilePathsCache, lastBnkMtime,
    bnkFileWatchersStarted, pending, clock, pc, call, acc, ret,
    inval, statAtLoad, flight, noteAt>>

finderVars == <<watchers, listeners, issued>>

\* the state of PresenceService
presenceVars == <<uploadService, coverUrlCache, lookups>>

\* the state of the upload module, of the sidecar lock and of the presence
\* service
sideVars == <<http, lockFile, procs, presenceVars>>

envVars ==
  <<usersDir, bnk, disk, musicFolders, trackIds, denied, clock, finderVars, sideVars>>

\* readable: readFileSync gives the contents; otherwise it throws
NoBnk == [present |-> FALSE, mtime |-> 0, paths |-> <<>>, readable |-> TRUE]

Init ==
  /\ usersDir = TRUE
  /\ bnk = [p \in Profiles |-> NoBnk]
  /\ disk = FileSeq
  /\ musicFolders = <<RootM, RootN>>
  /\ trackIds = Locators
  /\ denied = {}
  /\ watchers = {}
  /\ listeners = <<>>
  /\ issued = {}
  /\ http = <<>>
  /\ lockFile = NoFile
  /\ procs = NoProcs
  /\ uploadService = FALSE
  /\ coverUrlCache = NoCovers
  /\ lookups = NoLookups
  /\ spotifyFilePathsCache = NoCache
  /\ lastBnkMtime = 0
  /\ bnkFileWatchersStarted = FALSE
  /\ pending = FALSE
  /\ clock = 0
  /\ pc = "idle"
  /\ call = NoCall
  /\ acc = <<>>
  /\ ret = NoRet
  /\ inval = FALSE
  /\ statAtLoad = [p \in Profiles |-> [present |-> FALSE, mtime |-> 0]]
  /\ flight = FALSE
  /\ noteAt = "none"

(***************************************************************************)
(* Binary Index Reader and its cache                                       *)
(***************************************************************************)
\* which index files exist, and their modification times
BnkStat == [p \in Profiles |-> [present |-> bnk[p].present, mtime |-> bnk[p].mtime]]

\* getBnkMtime(): the largest mtime of the index files, 0 when there is none
getBnkMtime ==
  IF ~usersDir THEN 0
  ELSE SetMax({0} \cup { bnk[p].mtime : p \in { q \in Profiles : bnk[q].present } })

\* the paths found in the index files of the given profiles, in order, up to
\* the first file readFileSync throws on: the catch lies outside the loop
IndexPaths(profiles) ==
  LET P[ps \in Seq(STRING)] ==
        IF ps = <<>> THEN <<>>
        ELSE IF ~bnk[Head(ps)].present THEN P[Tail(ps)]
        ELSE IF ~bnk[Head(ps)].readable THEN <<>>
        ELSE bnk[Head(ps)].paths \o P[Tail(ps)]
  IN  P[profiles]

\* existsSync(filePath)
ExistsSync(f) == f \in Range(disk)

\* the rebuild: if (existsSync(filePath) && !paths.includes(filePath)) paths.push
LoadIndex == Dedupe(SelectSeq(IndexPaths(ProfileSeq), ExistsSync))

\* a clearCaches() that leaves the cached array in place
ClearedCacheKept(cache) == cache

\* clearCaches(): spotifyFilePathsCache = null
ClearedCache(cache) == NoCache

\* a modification-time check that never drops the cache
CacheAfterMtimeCheckSkipped(cache, currentMtime) == cache

\* if (currentMtime !== lastBnkMtime) spotifyFilePathsCache = null
CacheAfterMtimeCheck(cache, currentMtime) ==
  IF currentMtime # lastBnkMtime THEN NoCache ELSE cache

(***************************************************************************)
(* The handlers' results                                                   *)
(***************************************************************************)
\* the descriptors the handlers are called with
Infos ==
  { parseLocalTrackInfo(loc) :
      loc \in { l \in AllLocators : parseLocalTrackInfo(l).kind = "ok" } }

\* the descriptors of the matcher specification
MatchInfos == { parseLocalTrackInfo(loc) : loc \in MatchLocators }

\* the (descriptor, path) pairs the handlers can meet
ScorePairs ==
  (Infos \X FileUniverse)
    \cup ({parseLocalTrackInfo(LocSong)} \X FaultFiles)
    \cup UNION { {i} \X MatchFiles(i.title) : i \in MatchInfos }
    \cup ({ parseLocalTrackInfo(loc) : loc \in ContainLocators } \X ContainFiles)
    \cup ({parseLocalTrackInfo(LocSong)} \X ScanPool)
    \cup ({parseLocalTrackInfo(LocSong)} \X SkipPool)

\* The two matchers' scores over the universe, evaluated once: the scores
\* depend only on the descriptor and the path, not on the state.
IndexScoreTable ==
  [x \in ScorePairs |-> IndexScore(x[1].title, x[1].artist, x[2])] @@ <<>>

FolderScoreTable ==
  [x \in ScorePairs |->
     FolderScore(x[1].title, x[1].artist, x[1].album, x[2])] @@ <<>>

\* the matches array of findFileFromSpotifyDb(title, artist, album) over files
DbMatches(info, files) ==
  MatchesOf(IndexScoreTable, info, files)

\* the matches array findLocalFile's fallback fills over the configured folders
FolderMatches(info, folders) ==
  MatchesOf(FolderScoreTable, info, ScanFolders(folders, disk, denied))

\* a findLocalFile that goes on to its folders whatever the index gave
ScansAlways(op, dbm) == op = "find"

\* findLocalFile goes on to its folders: the handler is findLocalFile and
\* findFileFromSpotifyDb returned null (if (dbResult) return dbResult)
Scans(op, dbm) == op = "find" /\ ~BestMatch(dbm).found

\* the record of a returned call: its result (value) and how it came about
Result(op, info, files, meta, dbm, fm) ==
  [kind        |-> "ret",
   op          |-> op,
   info        |-> info,
   paths       |-> files,
   indexRead   |-> TRUE,
   dbMatches   |-> dbm,
   dbFound     |-> BestMatch(dbm).found,
   scanned     |-> IF Scans(op, dbm) THEN musicFolders ELSE <<>>,
   matches     |-> fm,
   value       |-> IF Scans(op, dbm) THEN BestMatch(fm) ELSE BestMatch(dbm),
   reloaded    |-> meta.reloaded,
   invalidated |-> meta.invalidated,
   changed     |-> meta.changed]

\* the rest of the handler once the index matcher left the matches dbm
AfterDb(op, info, files, meta, dbm) ==
  Result(op, info, files, meta, dbm,
         IF Scans(op, dbm) THEN FolderMatches(info, musicFolders) ELSE <<>>)

\* what the handler op returns once getSpotifyLocalFilePaths gave files
Return(op, info, files, meta) ==
  AfterDb(op, info, files, meta,
          IF op = "paths" THEN <<>> ELSE DbMatches(info, files))

\* getSpotifyLocalFilePaths() up to the end of its read loop, inside handler op
Begin(op, info) ==
  /\ pc = "idle"
  /\ bnkFileWatchersStarted' = TRUE
  /\ LET currentMtime == getBnkMtime
         cached       == CacheAfterMtimeCheck(spotifyFilePathsCache, currentMtime)
         meta         == [reloaded    |-> ~cached.valid,
                          invalidated |-> inval \/ currentMtime # lastBnkMtime,
                          changed     |-> BnkStat # statAtLoad]
     IN  /\ lastBnkMtime' = currentMtime
         /\ inval' = FALSE
         /\ flight' = FALSE
         /\ noteAt' = (IF noteAt = "delivered" THEN "none" ELSE noteAt)
         /\ IF cached.valid
              THEN /\ spotifyFilePathsCache' = cached
                   /\ ret' = Return(op, info, cached.paths, meta)
                   /\ UNCHANGED <<pc, call, acc, statAtLoad>>
            ELSE IF ~usersDir
              THEN /\ spotifyFilePathsCache' = NoCache
                   /\ ret' = Return(op, info, <<>>, meta)
                   /\ statAtLoad' = BnkStat
                   /\ UNCHANGED <<pc, call, acc>>
            ELSE /\ spotifyFilePathsCache' = NoCache
                 /\ pc' = "reading"
                 /\ call' = [op |-> op, info |-> info, meta |-> meta]
                 /\ acc' = LoadIndex
                 /\ ret' = NoRet
                 /\ statAtLoad' = BnkStat
  /\ UNCHANGED <<envVars, pending>>

\* spotifyFilePathsCache = paths; return paths; and the rest of the handler
FinishRead ==
  /\ pc = "reading"
  /\ spotifyFilePathsCache' = [valid |-> TRUE, paths |-> acc]
  /\ ret' = Return(call.op, call.info, acc, call.meta)
  /\ pc' = "idle"
  /\ call' = NoCall
  /\ acc' = <<>>
  /\ UNCHANGED <<envVars, lastBnkMtime, bnkFileWatchersStarted, pending,
                 inval, statAtLoad, flight, noteAt>>

NoInfo == [kind |-> "null"]

GetSpotifyLocalFilePaths == Begin("paths", NoInfo)

FindFileFromSpotifyDb ==
  \E loc \in trackIds :
    /\ parseLocalTrackInfo(loc).kind = "ok"
    /\ Begin("db", parseLocalTrackInfo(loc))

\* const info = parseLocalTrackInfo(trackId); if (!info) return null;
FindLocalFile ==
  \E loc \in trackIds :
    LET info == parseLocalTrackInfo(loc)
    IN  IF info.kind = "ok"
          THEN Begin("find", info)
          ELSE /\ pc = "idle"
               /\ ret' = [kind |-> IF info.kind = "throws" THEN "throw" ELSE "ret",
                          op |-> "find", info |-> info,
                          paths |-> <<>>, indexRead |-> FALSE, dbMatches |-> <<>>,
                          dbFound |-> FALSE, scanned |-> <<>>, matches |-> <<>>,
                          value |-> NotFound, reloaded |-> FALSE,
                          invalidated |-> FALSE, changed |-> FALSE]
               /\ UNCHANGED <<envVars, spotifyFilePathsCache, lastBnkMtime,
                              bnkFileWatchersStarted, pending, pc, call, acc,
                              inval, statAtLoad, flight, noteAt>>

\* clearCaches(notify)
ClearCaches ==
  /\ spotifyFilePathsCache' = ClearedCache(spotifyFilePathsCache)
  /\ inval' = TRUE
  /\ ret' = NoRet

\* a queued watch notification runs its callback: localFiles.clearCaches(true)
WatchCallback ==
  /\ pc = "idle"
  /\ pending
  /\ pending' = FALSE
  /\ ClearCaches
  /\ noteAt' = (IF noteAt = "queued" THEN "delivered" ELSE noteAt)
  /\ UNCHANGED <<envVars, lastBnkMtime, bnkFileWatchersStarted, pc, call, acc,
                 statAtLoad, flight>>

\* clearLocalFileCaches()
ClearLocalFileCaches ==
  /\ pc = "idle"
  /\ ClearCaches
  /\ UNCHANGED <<envVars, lastBnkMtime, bnkFileWatchersStarted, pending, pc,
                 call, acc, statAtLoad, flight, noteAt>>

(***************************************************************************)
(* The environment: Spotify rewrites its index, files come and go          *)
(***************************************************************************)
\* A change to an index file raises a notification when startBnkWatchers
\* attached a watch to its directory (watch() may throw: "Ignore watch errors").
BnkEvent(attached) == attached /\ bnkFileWatchersStarted

\* A change to audio file f raises a notification when refreshWatchers attached
\* a watch to a configured folder above it and the callback's filter lets it by.
FolderEvent(attached, f) ==
  /\ attached
  /\ \E i \in DOMAIN musicFolders : IsPrefix(musicFolders[i], f.dir)
  /\ ToLower[ExtName[f.name]] \in ScanExtensions

\* the notification, if raised, waits on the event loop for the handler in
\* flight to return
Notify(raised) ==
  /\ pending' = (pending \/ raised)
  /\ noteAt' = (IF raised /\ pc = "reading" THEN "queued" ELSE noteAt)

EnvFrame ==
  /\ ret' = NoRet
  /\ flight' = (flight \/ pc = "reading")
  /\ UNCHANGED <<musicFolders, trackIds, denied, finderVars, sideVars,
                 spotifyFilePathsCache,
                 lastBnkMtime,
                 bnkFileWatchersStarted, pc, call, acc, inval, statAtLoad>>

EnvWriteBnk ==
  \E p \in Profiles, attached \in BOOLEAN : \E c \in IndexContents(p) :
    /\ usersDir
    /\ clock < MaxClock
    /\ clock' = clock + 1
    /\ bnk' = [bnk EXCEPT ![p] = [present |-> TRUE, mtime |-> clock + 1, paths |-> c,
                                  readable |-> TRUE]]
    /\ Notify(BnkEvent(attached))
    /\ UNCHANGED <<usersDir, disk>>
    /\ EnvFrame

EnvDeleteBnk ==
  \E p \in Profiles, attached \in BOOLEAN :
    /\ bnk[p].present
    /\ bnk' = [bnk EXCEPT ![p] = NoBnk]
    /\ Notify(BnkEvent(attached))
    /\ UNCHANGED <<usersDir, disk, clock>>
    /\ EnvFrame

EnvRemoveUsersDir ==
  /\ usersDir
  /\ usersDir' = FALSE
  /\ bnk' = [p \in Profiles |-> NoBnk]
  /\ \E attached \in BOOLEAN : Notify(BnkEvent(attached))
  /\ UNCHANGED <<disk, clock>>
  /\ EnvFrame

EnvCreateUsersDir ==
  /\ ~usersDir
  /\ usersDir' = TRUE
  /\ UNCHANGED <<bnk, disk, clock, pending, noteAt>>
  /\ EnvFrame

EnvCreateFile ==
  \E f \in FileUniverse, attached \in BOOLEAN :
    /\ ~ExistsSync(f)
    /\ disk' = SelectSeq(FileSeq, LAMBDA g : g = f \/ ExistsSync(g))
    /\ Notify(FolderEvent(attached, f))
    /\ UNCHANGED <<usersDir, bnk, clock>>
    /\ EnvFrame

EnvDeleteFile ==
  \E f \in FileUniverse, attached \in BOOLEAN :
    /\ ExistsSync(f)
    /\ disk' = SelectSeq(disk, LAMBDA g : g # f)
    /\ Notify(FolderEvent(attached, f))
    /\ UNCHANGED <<usersDir, bnk, clock>>
    /\ EnvFrame

Next ==
  \/ GetSpotifyLocalFilePaths
  \/ FindFileFromSpotifyDb
  \/ FindLocalFile
  \/ FinishRead
  \/ WatchCallback
  \/ ClearLocalFileCaches
  \/ EnvWriteBnk
  \/ EnvDeleteBnk
  \/ EnvRemoveUsersDir
  \/ EnvCreateUsersDir
  \/ EnvCreateFile
  \/ EnvDeleteFile

Spec == Init /\ [][Next]_vars

(***************************************************************************)
(* The matcher specification: every descriptor of the pool against every   *)
(* candidate alone and every ordered pair of candidates, listed by the     *)
(* index or found by the scan.                                             *)
(***************************************************************************)
\* the candidates on disk: one file, or two in either order
Candidates(title) ==
  { <<f>> : f \in MatchFiles(title) }
    \cup { p \in MatchFiles(title) \X MatchFiles(title) : p[1] # p[2] }

InitMatch ==
  \E loc \in MatchLocators :
      \E files \in Candidates(parseLocalTrackInfo(loc).title) :
        \E indexed \in BOOLEAN :
          /\ usersDir = TRUE
          /\ bnk = [p \in Profiles |->
                      IF indexed /\ p = "u1"
                        THEN [present |-> TRUE, mtime |-> 1, paths |-> files,
                              readable |-> TRUE]
                        ELSE NoBnk]
          /\ disk = files
          /\ musicFolders = <<RootM>>
          /\ trackIds = {loc}
          /\ denied = {}
          /\ watchers = {}
          /\ listeners = <<>>
          /\ issued = {}
          /\ http = <<>>
          /\ lockFile = NoFile
          /\ procs = NoProcs
          /\ uploadService = FALSE
          /\ coverUrlCache = NoCovers
          /\ lookups = NoLookups
          /\ spotifyFilePathsCache = NoCache
          /\ lastBnkMtime = 0
          /\ bnkFileWatchersStarted = FALSE
          /\ pending = FALSE
          /\ clock = 1
          /\ pc = "idle"
          /\ call = NoCall
          /\ acc = <<>>
          /\ ret = NoRet
          /\ inval = FALSE
          /\ statAtLoad = [p \in Profiles |-> [present |-> FALSE, mtime |-> 0]]
          /\ flight = FALSE
          /\ noteAt = "none"

NextMatch ==
  \/ FindFileFromSpotifyDb
  \/ FindLocalFile
  \/ FinishRead

SpecMatch == InitMatch /\ [][NextMatch]_vars

(***************************************************************************)
(* The containment specification: the handlers on one descriptor and one   *)
(* candidate of ContainFiles, listed by the index or not.                  *)
(***************************************************************************)
InitContain ==
  \E loc \in ContainLocators :
      \E f \in ContainFiles :
        \E indexed \in BOOLEAN :
          /\ usersDir = TRUE
          /\ bnk = [p \in Profiles |->
                      IF indexed /\ p = "u1"
                        THEN [present |-> TRUE, mtime |-> 1, paths |-> <<f>>,
                              readable |-> TRUE]
                        ELSE NoBnk]
          /\ disk = <<f>>
          /\ musicFolders = <<RootM>>
          /\ trackIds = {loc}
          /\ denied = {}
          /\ watchers = {}
          /\ listeners = <<>>
          /\ issued = {}
          /\ http = <<>>
          /\ lockFile = NoFile
          /\ procs = NoProcs
          /\ uploadService = FALSE
          /\ coverUrlCache = NoCovers
          /\ lookups = NoLookups
          /\ spotifyFilePathsCache = NoCache
          /\ lastBnkMtime = 0
          /\ bnkFileWatchersStarted = FALSE
          /\ pending = FALSE
          /\ clock = 1
          /\ pc = "idle"
          /\ call = NoCall
          /\ acc = <<>>
          /\ ret = NoRet
          /\ inval = FALSE
          /\ statAtLoad = [p \in Profiles |-> [present |-> FALSE, mtime |-> 0]]
          /\ flight = FALSE
          /\ noteAt = "none"

SpecContain == InitContain /\ [][NextMatch]_vars

(***************************************************************************)
(* The scan specification: the handlers over two configured folders in     *)
(* either order and a disk of ScanDisks, listed by the index or not.       *)
(***************************************************************************)
InitScan ==
  \E files \in ScanDisks :
      \E folders \in { <<RootM, RootN>>, <<RootN, RootM>> } :
        \E indexed \in BOOLEAN :
          /\ usersDir = TRUE
          /\ bnk = [p \in Profiles |->
                      IF indexed /\ p = "u1"
                        THEN [present |-> TRUE, mtime |-> 1, paths |-> files,
                              readable |-> TRUE]
                        ELSE NoBnk]
          /\ disk = files
          /\ musicFolders = folders
          /\ trackIds = {LocSong}
          /\ denied = {}
          /\ watchers = {}
          /\ listeners = <<>>
          /\ issued = {}
          /\ http = <<>>
          /\ lockFile = NoFile
          /\ procs = NoProcs
          /\ uploadService = FALSE
          /\ coverUrlCache = NoCovers
          /\ lookups = NoLookups
          /\ spotifyFilePathsCache = NoCache
          /\ lastBnkMtime = 0
          /\ bnkFileWatchersStarted = FALSE
          /\ pending = FALSE
          /\ clock = 1
          /\ pc = "idle"
          /\ call = NoCall
          /\ acc = <<>>
          /\ ret = NoRet
          /\ inval = FALSE
          /\ statAtLoad = [p \in Profiles |-> [present |-> FALSE, mtime |-> 0]]
          /\ flight = FALSE
          /\ noteAt = "none"

SpecScan == InitScan /\ [][NextMatch]_vars

(***************************************************************************)
(* The skip specification: the handlers over a disk of SkipDisks, listed   *)
(* by the index or not.                                                    *)
(***************************************************************************)
InitSkip ==
  \E files \in SkipDisks :
      \E indexed \in BOOLEAN :
          /\ usersDir = TRUE
          /\ bnk = [p \in Profiles |->
                      IF indexed /\ p = "u1"
                        THEN [present |-> TRUE, mtime |-> 1, paths |-> files,
                              readable |-> TRUE]
                        ELSE NoBnk]
          /\ disk = files
          /\ musicFolders = <<RootM>>
          /\ trackIds = {LocSong}
          /\ denied = {}
          /\ watchers = {}
          /\ listeners = <<>>
          /\ issued = {}
          /\ http = <<>>
          /\ lockFile = NoFile
          /\ procs = NoProcs
          /\ uploadService = FALSE
          /\ coverUrlCache = NoCovers
          /\ lookups = NoLookups
          /\ spotifyFilePathsCache = NoCache
          /\ lastBnkMtime = 0
          /\ bnkFileWatchersStarted = FALSE
          /\ pending = FALSE
          /\ clock = 1
          /\ pc = "idle"
          /\ call = NoCall
          /\ acc = <<>>
          /\ ret = NoRet
          /\ inval = FALSE
          /\ statAtLoad = [p \in Profiles |-> [present |-> FALSE, mtime |-> 0]]
          /\ flight = FALSE
          /\ noteAt = "none"

SpecSkip == InitSkip /\ [][NextMatch]_vars

(***************************************************************************)
(* The parser specification: findLocalFile on every locator of the pool.   *)
(***************************************************************************)
InitParse ==
  \E loc \in ParseLocators :
    /\ usersDir = TRUE
    /\ bnk = [p \in Profiles |->
                IF p = "u1" THEN [present |-> TRUE, mtime |-> 1, paths |-> FileSeq,
                                  readable |-> TRUE]
                            ELSE NoBnk]
    /\ disk = FileSeq
    /\ musicFolders = <<RootM, RootN>>
    /\ trackIds = {loc}
    /\ denied = {}
    /\ watchers = {}
    /\ listeners = <<>>
    /\ issued = {}
    /\ http = <<>>
    /\ lockFile = NoFile
    /\ procs = NoProcs
    /\ uploadService = FALSE
    /\ coverUrlCache = NoCovers
    /\ lookups = NoLookups
    /\ spotifyFilePathsCache = NoCache
    /\ lastBnkMtime = 0
    /\ bnkFileWatchersStarted = FALSE
    /\ pending = FALSE
    /\ clock = 1
    /\ pc = "idle"
    /\ call = NoCall
    /\ acc = <<>>
    /\ ret = NoRet
    /\ inval = FALSE
    /\ statAtLoad = [p \in Profiles |-> [present |-> FALSE, mtime |-> 0]]
    /\ flight = FALSE
    /\ noteAt = "none"

NextParse ==
  \/ FindLocalFile
  \/ FinishRead

SpecParse == InitParse /\ [][NextParse]_vars

(***************************************************************************)
(* The normalizer specification: normalizeString in its default mode,      *)
(* applied to a string and then to its own result.                         *)
(***************************************************************************)
\* longest input string
NormLen == 3

NormAlphabet ==
  {"a", "B", "1", " ", "-", "%", "&", "$", "(", ")", "!", "Eacute", "szlig",
   "cjk1", "cjk2"}

\* "01. Up-Town (Live)", " 100% B&B "
NormSamples ==
  { <<"0","1","."," ","U","p","-","T","o","w","n"," ","(","L","i","v","e",")">>,
    <<" ","1","0","0","%"," ","B","&","B"," ">> }

NormInputs ==
  UNION { [1..n -> NormAlphabet] : n \in 0..NormLen } \cup NormSamples

InitNorm ==
  \E s \in NormInputs :
    /\ usersDir = TRUE
    /\ bnk = [p \in Profiles |-> NoBnk]
    /\ disk = FileSeq
    /\ musicFolders = <<RootM, RootN>>
    /\ trackIds = {}
    /\ denied = {}
    /\ watchers = {}
    /\ listeners = <<>>
    /\ issued = {}
    /\ http = <<>>
    /\ lockFile = NoFile
    /\ procs = NoProcs
    /\ uploadService = FALSE
    /\ coverUrlCache = NoCovers
    /\ lookups = NoLookups
    /\ spotifyFilePathsCache = NoCache
    /\ lastBnkMtime = 0
    /\ bnkFileWatchersStarted = FALSE
    /\ pending = FALSE
    /\ clock = 0
    /\ pc = "idle"
    /\ call = [op |-> "normalize", arg |-> s]
    /\ acc = <<>>
    /\ ret = NoRet
    /\ inval = FALSE
    /\ statAtLoad = [p \in Profiles |-> [present |-> FALSE, mtime |-> 0]]
    /\ flight = FALSE
    /\ noteAt = "none"

\* normalizeString(str) on the input, then on what it returned
NormalizeString ==
  /\ call.op = "normalize"
  /\ \/ /\ ret.kind = "none"
        /\ ret' = [kind |-> "value", op |-> "normalize", times |-> 1,
                   arg |-> call.arg, value |-> normalizeString(call.arg, FALSE, FALSE)]
     \/ /\ ret.kind = "value"
        /\ ret.times = 1
        /\ ret' = [kind |-> "value", op |-> "normalize", times |-> 2,
                   arg |-> ret.value, value |-> normalizeString(ret.value, FALSE, FALSE)]
  /\ UNCHANGED <<envVars, spotifyFilePathsCache, lastBnkMtime, bnkFileWatchersStarted,
                 pending, pc, call, acc, inval, statAtLoad, flight, noteAt>>

\* normalizeString(str, stripExtra, stripNumbers) with a flag set
NormalizeWith ==
  \E e \in BOOLEAN, n \in BOOLEAN :
    /\ call.op = "normalize"
    /\ ret.kind = "none"
    /\ e \/ n
    /\ ret' = [kind |-> "flagged", op |-> "normalize", arg |-> call.arg,
               stripExtra |-> e, stripNumbers |-> n,
               value |-> normalizeString(call.arg, e, n)]
    /\ UNCHANGED <<envVars, spotifyFilePathsCache, lastBnkMtime, bnkFileWatchersStarted,
                   pending, pc, call, acc, inval, statAtLoad, flight, noteAt>>

NextNorm ==
  \/ NormalizeString
  \/ NormalizeWith

SpecNorm == InitNorm /\ [][NextNorm]_vars

(***************************************************************************)
(* LocalFileFinder: folder watchers and change listeners.                  *)
(***************************************************************************)
\* most listeners subscribed at one time
MaxListeners == 2

Callbacks == {"c1", "c2"}

\* a folder of the configuration that is not on disk
DirGone == << <<"G">> >>

\* the folders the user can pick or the configuration can hold
FolderChoices == {RootM, RootN, DirGone}

\* existsSync(folder)
FolderExists(folder) == folder # DirGone

\* refreshWatchers(): close the handles of the folders no longer configured,
\* open one for each configured folder that exists and has none; failing
\* holds the folders watch() throws on
RefreshWatchers(open, folders, failing) ==
  { f \in open : f \in Range(folders) }
    \cup { f \in Range(folders) : f \notin open /\ FolderExists(f) /\ f \notin failing }

\* addMusicFolder: push the picked folder unless the configuration includes it
AddMusicFolder(folders, folder) ==
  IF folder \in Range(folders) THEN folders ELSE Append(folders, folder)

\* removeMusicFolder: config.musicFolders.filter((f) => f !== folder)
RemoveMusicFolder(folders, folder) ==
  SelectSeq(folders, LAMBDA f : f # folder)

\* everything but the configuration and the finder's fields
restVars ==
  <<usersDir, bnk, disk, trackIds, denied, sideVars, spotifyFilePathsCache, lastBnkMtime,
    bnkFileWatchersStarted, pending, clock, pc, call, acc, ret,
    inval, statAtLoad, flight, noteAt>>

\* the configurations the application can start with
StartConfigs == { <<>>, <<RootM>>, <<RootM, RootN>>, <<DirGone, RootN>> }

\* new LocalFileFinder(): the constructor calls refreshWatchers()
InitFinder ==
  \E folders \in StartConfigs, failing \in SUBSET {RootM} :
    /\ usersDir = TRUE
    /\ bnk = [p \in Profiles |-> NoBnk]
    /\ disk = FileSeq
    /\ musicFolders = folders
    /\ trackIds = Locators
    /\ denied = {}
    /\ watchers = RefreshWatchers({}, folders, failing)
    /\ listeners = <<>>
    /\ issued = {}
    /\ http = <<>>
    /\ lockFile = NoFile
    /\ procs = NoProcs
    /\ uploadService = FALSE
    /\ coverUrlCache = NoCovers
    /\ lookups = NoLookups
    /\ spotifyFilePathsCache = NoCache
    /\ lastBnkMtime = 0
    /\ bnkFileWatchersStarted = FALSE
    /\ pending = FALSE
    /\ clock = 0
    /\ pc = "idle"
    /\ call = NoCall
    /\ acc = <<>>
    /\ ret = NoRet
    /\ inval = FALSE
    /\ statAtLoad = [p \in Profiles |-> [present |-> FALSE, mtime |-> 0]]
    /\ flight = FALSE
    /\ noteAt = "none"

\* most subscriptions made in one run
MaxIssued == 3

\* onChange(callback): push the listener, refreshWatchers(), return the
\* unsubscribe function, which holds the callback
OnChange ==
  \E cb \in Callbacks, failing \in SUBSET {RootM} :
    /\ Len(listeners) < MaxListeners
    /\ Cardinality(issued) < MaxIssued
    /\ listeners' = Append(listeners, cb)
    /\ watchers' = RefreshWatchers(watchers, musicFolders, failing)
    /\ issued' = issued \cup {[id |-> Cardinality(issued) + 1, cb |-> cb, called |-> FALSE]}
    /\ UNCHANGED <<musicFolders, restVars>>

\* this.listeners.filter((l) => l !== callback)
Without(ls, callback) == SelectSeq(ls, LAMBDA l : l # callback)

\* the function onChange returned: drop the callback; with no listener left,
\* close every handle and clear the map
Unsubscribe ==
  \E s \in issued :
    /\ listeners' = Without(listeners, s.cb)
    /\ watchers' = (IF listeners' = <<>> THEN {} ELSE watchers)
    /\ issued' = (issued \ {s}) \cup {[s EXCEPT !.called = TRUE]}
    /\ UNCHANGED <<musicFolders, restVars>>

\* promptAddFolder(): the user picks a folder (or cancels: picked = FALSE);
\* if (folder) this.refreshWatchers()
PromptAddFolder ==
  \E folder \in FolderChoices, picked \in BOOLEAN, failing \in SUBSET {RootM} :
    /\ musicFolders' = (IF picked THEN AddMusicFolder(musicFolders, folder)
                                  ELSE musicFolders)
    /\ watchers' = (IF picked THEN RefreshWatchers(watchers, musicFolders', failing)
                              ELSE watchers)
    /\ UNCHANGED <<listeners, issued, restVars>>

\* removeFolder(folder): removeMusicFolder, then close and delete its handle
RemoveFolder ==
  \E folder \in FolderChoices :
    /\ musicFolders' = RemoveMusicFolder(musicFolders, folder)
    /\ watchers' = watchers \ {folder}
    /\ UNCHANGED <<listeners, issued, restVars>>

\* watcher.on("error"): this.watchers.delete(folder)
WatcherError ==
  \E folder \in watchers :
    /\ watchers' = watchers \ {folder}
    /\ UNCHANGED <<musicFolders, listeners, issued, restVars>>

\* the file names a folder watch can report: none, ".DS_Store", "Song.mp3",
\* "Song.FLAC", "a/Song.opus", "a.mp3/notes", "notes.txt", "Song.aac",
\* "a/.DS_Store"
NoName == [given |-> FALSE, name |-> <<>>]

DSStore == <<".","D","S","_","S","t","o","r","e">>

WatchNames ==
  {NoName}
    \cup { [given |-> TRUE, name |-> n] :
             n \in { DSStore,
                     <<"S","o","n","g",".","m","p","3">>,
                     <<"S","o","n","g",".","F","L","A","C">>,
                     <<"a","/","S","o","n","g",".","o","p","u","s">>,
                     <<"a",".","m","p","3","/","n","o","t","e","s">>,
                     <<"n","o","t","e","s",".","t","x","t">>,
                     <<"S","o","n","g",".","a","a","c">>,
                     <<"a","/">> \o DSStore } }

\* the part of path p after its last "/"
LastSegment[p \in Str] ==
  IF \E i \in DOMAIN p : p[i] = "/"
    THEN SubSeq(p, 1 + (CHOOSE i \in DOMAIN p :
                          p[i] = "/" /\ \A j \in (i + 1)..Len(p) : p[j] # "/"),
                Len(p))
    ELSE p

\* a watch callback that has no filter
WatchRelevantAlways(ev) == TRUE

\* the filter of the watch callback: no file name, ".DS_Store", or an audio
\* extension
WatchRelevant(ev) ==
  \/ ~ev.given
  \/ ev.name = <<>>
  \/ ~(ev.name # DSStore /\ ToLower[ExtName[LastSegment[ev.name]]] \notin ScanExtensions)

\* the callback of a folder watch runs for event ev: return, or
\* this.clearCaches(true), which calls every listener
FolderWatchEvent ==
  \E folder \in watchers, ev \in WatchNames :
    /\ pc = "idle"
    /\ spotifyFilePathsCache' =
         (IF WatchRelevant(ev) THEN ClearedCache(spotifyFilePathsCache)
                               ELSE spotifyFilePathsCache)
    /\ inval' = (inval \/ WatchRelevant(ev))
    /\ ret' = [kind |-> "event", ev |-> ev, before |-> spotifyFilePathsCache,
               after |-> spotifyFilePathsCache', listeners |-> listeners,
               notified |-> IF WatchRelevant(ev) THEN listeners ELSE <<>>]
    /\ UNCHANGED <<envVars, lastBnkMtime, bnkFileWatchersStarted, pending, pc, call,
                   acc, statAtLoad, flight, noteAt>>

NextFinder ==
  \/ OnChange
  \/ Unsubscribe
  \/ PromptAddFolder
  \/ RemoveFolder
  \/ WatcherError

SpecFinder == InitFinder /\ [][NextFinder]_vars

(***************************************************************************)
(* The watch specification: subscriptions, folder watch notifications and  *)
(* the index cache they clear, over a configuration that stays as it is.   *)
(***************************************************************************)
NextWatch ==
  \/ OnChange
  \/ Unsubscribe
  \/ FolderWatchEvent
  \/ GetSpotifyLocalFilePaths
  \/ FinishRead

SpecWatch == InitFinder /\ [][NextWatch]_vars


(***************************************************************************)
(* The upload module: uploadFile, fileExists, uploadIfNotExists and        *)
(* UploadService.uploadCover.  pc is "head" before the existence check,    *)
(* "put" before an attempt, "sleep" between two attempts.                  *)
(***************************************************************************)
\* largest retryConfig.maxRetries
MaxRetries == 2

\* what fetch can give: a response with a status, a TypeError of fetch
\* (network failure), or another exception
Responses ==
  { [kind |-> "status", status |-> n] : n \in {200, 404, 429, 503} }
    \cup { [kind |-> "fetchError", status |-> 0], [kind |-> "otherError", status |-> 0] }

\* res.ok
ResOk(resp) == resp.kind = "status" /\ resp.status >= 200 /\ resp.status < 300

\* a status check that takes every failure for a passing one
isRetryableStatusAlways(status) == TRUE

\* isRetryableStatus(status)
isRetryableStatus(status) == status = 429 \/ (status >= 500 /\ status < 600)

NoError == [name |-> "none", statusCode |-> 0, retryable |-> FALSE]

\* new UploadError(message, statusCode, retryable)
UploadError(statusCode, retryable) ==
  [name |-> "UploadError", statusCode |-> statusCode, retryable |-> retryable]

\* the exception a rejected fetch throws
Rejection(resp) ==
  [name |-> IF resp.kind = "fetchError" THEN "TypeError" ELSE "Error",
   statusCode |-> 0, retryable |-> FALSE]

\* isRetryableError(error)
isRetryableError(error) ==
  IF error.name = "UploadError" THEN error.retryable ELSE error.name = "TypeError"

\* the catch block of one attempt: rethrow, or keep the error as lastError
Caught(error, attempt, maxRetries) ==
  IF error.name = "UploadError" /\ ~error.retryable THEN [kind |-> "throw", error |-> error]
  ELSE IF ~isRetryableError(error) /\ attempt = maxRetries
    THEN [kind |-> "throw", error |-> error]
  ELSE [kind |-> "next", error |-> error]

\* what a response with a failure status leads to inside the try block
Failed(error, attempt, maxRetries) ==
  IF ~error.retryable \/ attempt = maxRetries
    THEN Caught(error, attempt, maxRetries)
    ELSE [kind |-> "next", error |-> error]

\* the try / catch of one attempt on what fetch gave
Attempt(resp, attempt, maxRetries) ==
  IF resp.kind # "status" THEN Caught(Rejection(resp), attempt, maxRetries)
  ELSE IF ResOk(resp) THEN [kind |-> "ret", error |-> NoError]
  ELSE Failed(UploadError(resp.status, isRetryableStatus(resp.status)),
              attempt, maxRetries)

\* an existence check that never finds the file
HeadFoundNever(resp) == FALSE

\* fileExists: the URL when the HEAD response is ok, null otherwise
HeadFound(resp) == ResOk(resp)

UploadOps == {"uploadFile", "uploadIfNotExists", "uploadCover"}

InitUpload ==
  \E op \in UploadOps, m \in 0..MaxRetries :
    /\ usersDir = TRUE
    /\ bnk = [p \in Profiles |-> NoBnk]
    /\ disk = FileSeq
    /\ musicFolders = <<RootM, RootN>>
    /\ trackIds = {}
    /\ denied = {}
    /\ watchers = {}
    /\ listeners = <<>>
    /\ issued = {}
    /\ http = <<>>
    /\ lockFile = NoFile
    /\ procs = NoProcs
    /\ uploadService = FALSE
    /\ coverUrlCache = NoCovers
    /\ lookups = NoLookups
    /\ spotifyFilePathsCache = NoCache
    /\ lastBnkMtime = 0
    /\ bnkFileWatchersStarted = FALSE
    /\ pending = FALSE
    /\ clock = 0
    /\ pc = (IF op = "uploadFile" THEN "put" ELSE "head")
    /\ call = [op |-> op, maxRetries |-> m, attempt |-> 0, lastError |-> NoError]
    /\ acc = <<>>
    /\ ret = NoRet
    /\ inval = FALSE
    /\ statAtLoad = [p \in Profiles |-> [present |-> FALSE, mtime |-> 0]]
    /\ flight = FALSE
    /\ noteAt = "none"

uploadFrame ==
  UNCHANGED <<usersDir, bnk, disk, musicFolders, trackIds, denied, clock, finderVars,
              lockFile, procs, presenceVars, spotifyFilePathsCache, lastBnkMtime,
              bnkFileWatchersStarted, pending, acc, inval, statAtLoad, flight, noteAt>>

\* uploadIfNotExists / uploadCover: await fileExists(filePath, config), and
\* the return of the existing URL
FileExists ==
  \E resp \in Responses :
    /\ pc = "head"
    /\ http' = Append(http, [method |-> "HEAD", resp |-> resp])
    /\ IF HeadFound(resp)
         THEN /\ pc' = "idle"
              /\ ret' = [kind |-> "ret", op |-> call.op, url |-> "head",
                         existed |-> TRUE, error |-> NoError]
         ELSE /\ pc' = "put"
              /\ ret' = ret
    /\ UNCHANGED call
    /\ uploadFrame

\* what one turn of uploadFile's loop ends in, given the outcome of its
\* try / catch: a return, a throw, or the sleep before the next attempt
PutEnds(outcome) ==
  /\ pc' = (IF outcome.kind = "next" /\ call.attempt < call.maxRetries
             THEN "sleep" ELSE "idle")
  /\ call' = [call EXCEPT !.lastError = outcome.error]
  /\ ret' = (IF outcome.kind = "ret"
              THEN [kind |-> "ret", op |-> call.op, url |-> "put",
                    existed |-> FALSE, error |-> NoError]
            ELSE IF outcome.kind = "throw" \/ call.attempt >= call.maxRetries
              THEN [kind |-> "throw", op |-> call.op, url |-> "none",
                    existed |-> FALSE, error |-> outcome.error]
            ELSE ret)

\* one turn of the loop of uploadFile: the PUT and its try / catch; after the
\* last turn, throw lastError
PutAttempt ==
  \E resp \in Responses :
    /\ pc = "put"
    /\ http' = Append(http, [method |-> "PUT", resp |-> resp])
    /\ PutEnds(Attempt(resp, call.attempt, call.maxRetries))
    /\ uploadFrame

\* await sleep(delay); attempt++
Sleep ==
  /\ pc = "sleep"
  /\ pc' = "put"
  /\ call' = [call EXCEPT !.attempt = call.attempt + 1]
  /\ UNCHANGED <<http, ret>>
  /\ uploadFrame

NextUpload ==
  \/ FileExists
  \/ PutAttempt
  \/ Sleep

SpecUpload == InitUpload /\ [][NextUpload]_vars

(***************************************************************************)
(* The sidecar lock: acquireLock and its cleanup, one file-system call per *)
(* step, for two sidecar processes.  procs[p].pc is the position of        *)
(* process p: "off" (not running), "start" (before existsSync), "read",    *)
(* "check", "unlink", "write", "held" (acquireLock returned true),         *)
(* "refused" (it returned false), "cexists", "cread", "cunlink" (cleanup). *)
(***************************************************************************)
InitLock ==
  /\ usersDir = TRUE
  /\ bnk = [p \in Profiles |-> NoBnk]
  /\ disk = FileSeq
  /\ musicFolders = <<RootM, RootN>>
  /\ trackIds = {}
  /\ denied = {}
  /\ watchers = {}
  /\ listeners = <<>>
  /\ issued = {}
  /\ http = <<>>
  /\ lockFile = NoFile
  /\ procs = NoProcs
  /\ uploadService = FALSE
  /\ coverUrlCache = NoCovers
  /\ lookups = NoLookups
  /\ spotifyFilePathsCache = NoCache
  /\ lastBnkMtime = 0
  /\ bnkFileWatchersStarted = FALSE
  /\ pending = FALSE
  /\ clock = 0
  /\ pc = "idle"
  /\ call = NoCall
  /\ acc = <<>>
  /\ ret = NoRet
  /\ inval = FALSE
  /\ statAtLoad = [p \in Profiles |-> [present |-> FALSE, mtime |-> 0]]
  /\ flight = FALSE
  /\ noteAt = "none"

lockFrame ==
  UNCHANGED <<usersDir, bnk, disk, musicFolders, trackIds, denied, clock, finderVars,
              http, presenceVars, spotifyFilePathsCache, lastBnkMtime,
              bnkFileWatchersStarted,
              pending, pc, call, acc, ret, inval, statAtLoad, flight, noteAt>>

\* process p moves to position at
Goto(p, at) == procs' = [procs EXCEPT ![p].pc = at]

\* isProcessRunning(pid): ps finds a process pid whose command is the sidecar
isProcessRunning(pid) == pid \in Pids /\ procs[pid].pc # "off"

\* a sidecar process starts and calls acquireLock
StartSidecar ==
  \E p \in Pids :
    /\ procs[p].pc = "off"
    /\ procs' = [procs EXCEPT ![p] = [pc |-> "start", seen |-> 0]]
    /\ UNCHANGED lockFile
    /\ lockFrame

\* if (existsSync(LOCK_FILE))
LockExistsSync ==
  \E p \in Pids :
    /\ procs[p].pc = "start"
    /\ Goto(p, IF lockFile.present THEN "read" ELSE "write")
    /\ UNCHANGED lockFile
    /\ lockFrame

\* existingPid = parseInt(readFileSync(LOCK_FILE)); a vanished file throws
\* and acquireLock returns false
LockReadFileSync ==
  \E p \in Pids :
    /\ procs[p].pc = "read"
    /\ procs' = [procs EXCEPT ![p] =
                  IF lockFile.present THEN [pc |-> "check", seen |-> lockFile.pid]
                                      ELSE [pc |-> "refused", seen |-> 0]]
    /\ UNCHANGED lockFile
    /\ lockFrame

\* if (existingPid && isProcessRunning(existingPid)) return false
LockCheckRunning ==
  \E p \in Pids :
    /\ procs[p].pc = "check"
    /\ Goto(p, IF isProcessRunning(procs[p].seen) THEN "refused" ELSE "unlink")
    /\ UNCHANGED lockFile
    /\ lockFrame

\* unlinkSync(LOCK_FILE) of a stale lock; a vanished file throws and
\* acquireLock returns false
LockUnlinkStale ==
  \E p \in Pids :
    /\ procs[p].pc = "unlink"
    /\ Goto(p, IF lockFile.present THEN "write" ELSE "refused")
    /\ lockFile' = NoFile
    /\ lockFrame

\* writeFileSync(LOCK_FILE, String(pid)); register cleanup; return true
LockWriteFileSync ==
  \E p \in Pids :
    /\ procs[p].pc = "write"
    /\ lockFile' = [present |-> TRUE, pid |-> p]
    /\ Goto(p, "held")
    /\ lockFrame

\* index.ts: if (!acquireLock()) process.exit(1); no cleanup is registered
RefusedExit ==
  \E p \in Pids :
    /\ procs[p].pc = "refused"
    /\ Goto(p, "off")
    /\ UNCHANGED lockFile
    /\ lockFrame

\* exit, SIGINT, SIGTERM or SIGHUP of a holder: cleanup() begins
HolderExits ==
  \E p \in Pids :
    /\ procs[p].pc = "held"
    /\ Goto(p, "cexists")
    /\ UNCHANGED lockFile
    /\ lockFrame

\* cleanup: if (existsSync(LOCK_FILE))
CleanupExistsSync ==
  \E p \in Pids :
    /\ procs[p].pc = "cexists"
    /\ Goto(p, IF lockFile.present THEN "cread" ELSE "off")
    /\ UNCHANGED lockFile
    /\ lockFrame

\* cleanup: lockPid = parseInt(readFileSync(LOCK_FILE)); if (lockPid === pid)
CleanupReadFileSync ==
  \E p \in Pids :
    /\ procs[p].pc = "cread"
    /\ Goto(p, IF lockFile.present /\ lockFile.pid = p THEN "cunlink" ELSE "off")
    /\ UNCHANGED lockFile
    /\ lockFrame

\* cleanup: unlinkSync(LOCK_FILE), then the process is gone
CleanupUnlinkSync ==
  \E p \in Pids :
    /\ procs[p].pc = "cunlink"
    /\ lockFile' = NoFile
    /\ Goto(p, "off")
    /\ lockFrame

\* SIGKILL or a crash: the process is gone and no handler runs
Killed ==
  \E p \in Pids :
    /\ procs[p].pc # "off"
    /\ Goto(p, "off")
    /\ UNCHANGED lockFile
    /\ lockFrame

NextLock ==
  \/ StartSidecar
  \/ LockExistsSync
  \/ LockReadFileSync
  \/ LockCheckRunning
  \/ LockUnlinkStale
  \/ LockWriteFileSync
  \/ RefusedExit
  \/ HolderExits
  \/ CleanupExistsSync
  \/ CleanupReadFileSync
  \/ CleanupUnlinkSync
  \/ Killed

SpecLock == InitLock /\ [][NextLock]_vars

(***************************************************************************)
(* The index reader: the byte scan getSpotifyLocalFilePaths runs over one  *)
(* index file.  A buffer is a string, one token per byte; positions count  *)
(* from 0 as in the code.                                                  *)
(***************************************************************************)
\* Buffer.from("/Users/")
usersPattern == <<"/","U","s","e","r","s","/">>

\* const audioExtensions = [".mp3", ".m4a", ".flac", ".wav", ".ogg", ".opus",
\* ".aac", ".wma"]
audioExtensions ==
  { ExtMp3, <<".","m","4","a">>, ExtFlac, ExtWav, <<".","o","g","g">>,
    <<".","o","p","u","s">>, <<".","a","a","c">>, <<".","w","m","a">> }

\* while (i < buffer.length - 20)
TailGuard == 20

\* j < Math.min(idx + 300, buffer.length)
PathWindow == 300

\* buffer.subarray(j, Math.min(j + 5, buffer.length))
SliceLen == 5

\* the smaller of two numbers
Min(a, b) == IF a < b THEN a ELSE b

\* buffer.subarray(from, to)
Subarray(buffer, from, to) == SubSeq(buffer, from + 1, to)

\* buffer.indexOf(pattern, from), -1 when there is none
IndexOf(buffer, pattern, from) ==
  LET hits == { k \in from..(Len(buffer) - Len(pattern)) :
                  Subarray(buffer, k, k + Len(pattern)) = pattern }
  IN  IF hits = {} THEN -1 ELSE CHOOSE k \in hits : \A h \in hits : k <= h

\* the extension that starts at position j of buffer, in any case; <<>> when
\* there is none
ExtensionAt(buffer, j) ==
  LET slice == ToLower[Subarray(buffer, j, Min(j + SliceLen, Len(buffer)))]
      exts  == { ext \in audioExtensions : StartsWith[slice, ext] }
  IN  IF exts = {} THEN <<>> ELSE CHOOSE ext \in exts : TRUE

\* the for loop over j: the end of the path that starts at idx, idx itself
\* when no extension starts inside the window
PathEnd(buffer, idx) ==
  LET js == { j \in idx..(Min(idx + PathWindow, Len(buffer)) - 1) :
                ExtensionAt(buffer, j) # <<>> }
  IN  IF js = {} THEN idx
      ELSE LET j == CHOOSE k \in js : \A h \in js : k <= h
           IN  j + Len(ExtensionAt(buffer, j))

\* if (existsSync(filePath) && !paths.includes(filePath)) paths.push(filePath)
Pushed(paths, filePath, exists) ==
  IF filePath \in exists /\ filePath \notin Range(paths)
    THEN Append(paths, filePath) ELSE paths

\* the while loop from position i on, paths being the array so far
RECURSIVE ScanBuffer(_, _, _, _)
ScanBuffer(buffer, exists, i, paths) ==
  IF i >= Len(buffer) - TailGuard \/ IndexOf(buffer, usersPattern, i) = -1 THEN paths
  ELSE LET idx == IndexOf(buffer, usersPattern, i)
           end == PathEnd(buffer, idx)
       IN  IF end > idx
             THEN ScanBuffer(buffer, exists, end,
                             Pushed(paths, Subarray(buffer, idx, end), exists))
             ELSE ScanBuffer(buffer, exists, idx + 1, paths)

\* the paths an index file can hold: "/Users/a.mp3", "/Users/b.FLAC",
\* "/Volumes/a.mp3", "/Users/x.mp3d/b.mp3", and a path of more than 300 bytes
PathA == <<"/","U","s","e","r","s","/","a",".","m","p","3">>

PathB == <<"/","U","s","e","r","s","/","b",".","F","L","A","C">>

PathVolumes == <<"/","V","o","l","u","m","e","s","/","a",".","m","p","3">>

PathDottedDir == <<"/","U","s","e","r","s","/","x",".","m","p","3","d","/","b",".","m","p","3">>

PathLong == usersPattern \o [n \in 1..PathWindow |-> "d"] \o <<"/","a",".","m","p","3">>

BytePaths == {PathA, PathB, PathVolumes, PathDottedDir, PathLong}

\* n bytes that belong to no path
Filler(n) == [k \in 1..n |-> "#"]

\* the contents of an index file
ByteBuffers ==
  { Filler(3) \o PathA \o Filler(25),
    PathA,
    Filler(3) \o PathA \o Filler(25) \o PathB,
    PathVolumes \o Filler(25),
    PathDottedDir \o Filler(25),
    PathA \o Filler(1) \o PathA \o Filler(25),
    PathLong \o Filler(25),
    PathB \o Filler(1) \o PathA \o Filler(25),
    PathA \o PathB \o Filler(25),
    Filler(25) }

\* the byte specification: one index file with the contents buffer, the
\* paths of exists on disk
InitBytes ==
  \E buffer \in ByteBuffers, exists \in SUBSET BytePaths :
    /\ usersDir = TRUE
    /\ bnk = [p \in Profiles |-> NoBnk]
    /\ disk = FileSeq
    /\ musicFolders = <<RootM, RootN>>
    /\ trackIds = {}
    /\ denied = {}
    /\ watchers = {}
    /\ listeners = <<>>
    /\ issued = {}
    /\ http = <<>>
    /\ lockFile = NoFile
    /\ procs = NoProcs
    /\ uploadService = FALSE
    /\ coverUrlCache = NoCovers
    /\ lookups = NoLookups
    /\ spotifyFilePathsCache = NoCache
    /\ lastBnkMtime = 0
    /\ bnkFileWatchersStarted = FALSE
    /\ pending = FALSE
    /\ clock = 0
    /\ pc = "idle"
    /\ call = [op |-> "bytes", buffer |-> buffer, exists |-> exists]
    /\ acc = <<>>
    /\ ret = NoRet
    /\ inval = FALSE
    /\ statAtLoad = [p \in Profiles |-> [present |-> FALSE, mtime |-> 0]]
    /\ flight = FALSE
    /\ noteAt = "none"

\* const buffer = readFileSync(bnkPath); let i = 0; while ...; the paths array
\* is what getSpotifyLocalFilePaths returns
ReadIndexBytes ==
  /\ call.op = "bytes"
  /\ ret = NoRet
  /\ ret' = [kind |-> "bytes", value |-> ScanBuffer(call.buffer, call.exists, 0, <<>>)]
  /\ UNCHANGED <<envVars, spotifyFilePathsCache, lastBnkMtime, bnkFileWatchersStarted,
                 pending, pc, call, acc, inval, statAtLoad, flight, noteAt>>

NextBytes == ReadIndexBytes

SpecBytes == InitBytes /\ [][NextBytes]_vars

(***************************************************************************)
(* findLocalFile one loop iteration at a time: the byte scan of every      *)
(* index file, then the recursion over the music folders with its call     *)
(* stack made explicit                                                     *)
(***************************************************************************)

\* a Dirent of readdirSync(dir, { withFileTypes: true }): a link names the
\* directory it points to and is neither isFile() nor isDirectory()
Dirent(dir, name, kind, to) == [dir |-> dir, name |-> name, kind |-> kind, to |-> to]

ChainNames == << <<"a">>, <<"b">>, <<"c">>, <<"d">>, <<"e">>, <<"f">>, <<"g">> >>

\* the directories a, a/b, ... below root, n deep
Chain(root, n) ==
  [k \in 1..n |-> Dirent(root \o SubSeq(ChainNames, 1, k - 1), ChainNames[k], "dir", <<>>)]

\* the directory trees: exists holds the music folders that exist
TermTrees ==
  { [exists |-> {RootM, RootN}, entries |-> Chain(RootM, 7)],
    [exists |-> {RootM, RootN},
     entries |-> Chain(RootM, 6)
                   \o << Dirent(RootM, <<"l","o","o","p">>, "link", RootM),
                         Dirent(DirDeep(2), <<"u","p">>, "link", RootM),
                         Dirent(RootN, <<"m">>, "link", RootM) >>],
    [exists |-> {RootM, RootN},
     entries |-> << Dirent(RootM, NameSong, "file", <<>>),
                    Dirent(RootM, <<".","h">>, "dir", <<>>),
                    Dirent(RootM \o << <<".","h">> >>, <<"x">>, "dir", <<>>),
                    Dirent(RootM, <<"L","i","b","r","a","r","y">>, "dir", <<>>),
                    Dirent(RootM, <<"a">>, "dir", <<>>),
                    Dirent(RootN, <<"a">>, "dir", <<>>),
                    Dirent(RootN, <<"b">>, "dir", <<>>),
                    Dirent(RootN \o << <<"b">> >>, <<"b","a","c","k">>, "link", RootN) >>],
    [exists |-> {RootN}, entries |-> Chain(RootN, 2)],
    [exists |-> {}, entries |-> <<>>] }

\* the index files of the profiles, in userDirs order; the last ones hold a
\* /Users/ that no extension follows
TermBuffers ==
  { <<b>> : b \in ByteBuffers \ {PathLong \o Filler(25)} }
    \cup { << Filler(3) \o PathA \o Filler(25), PathB \o Filler(1) \o PathA \o Filler(25) >>,
           << PathA, usersPattern \o Filler(25) >>,
           << usersPattern \o usersPattern \o Filler(2) \o PathA \o PathB \o Filler(25) >>,
           << >> }

InitSteps ==
  \E buffers \in TermBuffers, tree \in TermTrees, exists \in {{}, BytePaths} :
    /\ usersDir = TRUE
    /\ bnk = [p \in Profiles |-> NoBnk]
    /\ disk = FileSeq
    /\ musicFolders = <<RootM, RootN>>
    /\ trackIds = {}
    /\ denied = {}
    /\ watchers = {}
    /\ listeners = <<>>
    /\ issued = {}
    /\ http = <<>>
    /\ lockFile = NoFile
    /\ procs = NoProcs
    /\ uploadService = FALSE
    /\ coverUrlCache = NoCovers
    /\ lookups = NoLookups
    /\ spotifyFilePathsCache = NoCache
    /\ lastBnkMtime = 0
    /\ bnkFileWatchersStarted = FALSE
    /\ pending = FALSE
    /\ clock = 0
    /\ pc = "bytes"
    /\ call = [op |-> "find", buffers |-> buffers, exists |-> exists, tree |-> tree,
               b |-> 1, i |-> 0, paths |-> <<>>, stack |-> <<>>]
    /\ acc = <<>>
    /\ ret = NoRet
    /\ inval = FALSE
    /\ statAtLoad = [p \in Profiles |-> [present |-> FALSE, mtime |-> 0]]
    /\ flight = FALSE
    /\ noteAt = "none"

stepFrame ==
  <<envVars, spotifyFilePathsCache, lastBnkMtime, bnkFileWatchersStarted, pending,
    inval, statAtLoad, flight, noteAt>>

\* a position that stays on a /Users/ no path ends after
NextPositionStuck(idx, pathEnd) == IF pathEnd > idx THEN pathEnd ELSE idx

\* i = pathEnd; or i = idx + 1;
NextPosition(idx, pathEnd) == IF pathEnd > idx THEN pathEnd ELSE idx + 1

\* per index file and position i, what an iteration computes there: idx, and
\* pathEnd after the for loop over j (computed once for all states)
IterationTable ==
  [buffer \in UNION { Range(bs) : bs \in TermBuffers } |->
     [i \in 0..Len(buffer) |->
        LET idx == IndexOf(buffer, usersPattern, i)
        IN  [idx |-> idx, pathEnd |-> IF idx = -1 THEN -1 ELSE PathEnd(buffer, idx)]]]

\* one iteration of while (i < buffer.length - 20), ended by i = ...
ByteIteration ==
  /\ pc = "bytes"
  /\ call.b <= Len(call.buffers)
  /\ call.i < Len(call.buffers[call.b]) - TailGuard
  /\ IterationTable[call.buffers[call.b]][call.i].idx # -1
  /\ LET buffer == call.buffers[call.b]
         idx == IterationTable[buffer][call.i].idx
         pathEnd == IterationTable[buffer][call.i].pathEnd
     IN  call' = [call EXCEPT
           !.paths = IF pathEnd > idx
                       THEN Pushed(call.paths, Subarray(buffer, idx, pathEnd), call.exists)
                       ELSE call.paths,
           !.i = NextPosition(idx, pathEnd)]
  /\ UNCHANGED <<stepFrame, pc, acc, ret>>

\* the while loop ends (its test fails, or break): the next userDir
ByteLoopEnds ==
  /\ pc = "bytes"
  /\ call.b <= Len(call.buffers)
  /\ \/ call.i >= Len(call.buffers[call.b]) - TailGuard
     \/ IterationTable[call.buffers[call.b]][call.i].idx = -1
  /\ call' = [call EXCEPT !.b = call.b + 1, !.i = 0]
  /\ UNCHANGED <<stepFrame, pc, acc, ret>>

\* getSpotifyLocalFilePaths returns; if (dbPath) return dbPath; whether a
\* recorded path matches the track depends on the titles, which play no part
\* here: both outcomes are taken. Otherwise the loop over the folders starts
IndexScanned ==
  /\ pc = "bytes"
  /\ call.b > Len(call.buffers)
  /\ \E found \in (IF call.paths = <<>> THEN {FALSE} ELSE BOOLEAN) :
       IF found
         THEN /\ pc' = "done"
              /\ ret' = [kind |-> "find", from |-> "index"]
              /\ call' = call
         ELSE /\ pc' = "folders"
              /\ ret' = ret
              /\ call' = [call EXCEPT
                   !.stack = [k \in DOMAIN musicFolders |-> [dir |-> musicFolders[k], depth |-> 0]]]
  /\ UNCHANGED <<stepFrame, acc>>

\* existsSync(dir) of a directory the scan has reached
DirExists(dir, tree) ==
  \/ dir \in tree.exists
  \/ \E k \in DOMAIN tree.entries :
       tree.entries[k].kind = "dir" /\ Append(tree.entries[k].dir, tree.entries[k].name) = dir

\* the calls searchRecursiveAll(path.join(dir, entry.name), ..., depth + 1) of
\* the directory loop, in entry order
Recursions(dir, depth, tree) ==
  LET dirs == SelectSeq(tree.entries,
                LAMBDA e : e.dir = dir /\ e.kind = "dir" /\ ~Skipped(e.name))
  IN  [k \in DOMAIN dirs |-> [dir |-> Append(dir, dirs[k].name), depth |-> depth + 1]]

\* one call of searchRecursiveAll: it returns at once (depth > 5, or the
\* directory is missing), or reads the directory and makes its recursive calls
SearchRecursiveAllCall ==
  /\ pc = "folders"
  /\ call.stack # <<>>
  /\ LET frame == Head(call.stack)
     IN  IF frame.depth > MaxDepth \/ ~DirExists(frame.dir, call.tree)
           THEN /\ call' = [call EXCEPT !.stack = Tail(call.stack)]
                /\ acc' = acc
           ELSE /\ call' = [call EXCEPT !.stack =
                     Recursions(frame.dir, frame.depth, call.tree) \o Tail(call.stack)]
                /\ acc' = Append(acc, frame.dir)
  /\ UNCHANGED <<stepFrame, pc, ret>>

\* every folder is searched: findLocalFile returns
FoldersSearched ==
  /\ pc = "folders"
  /\ call.stack = <<>>
  /\ pc' = "done"
  /\ ret' = [kind |-> "find", from |-> "folders"]
  /\ UNCHANGED <<stepFrame, call, acc>>

NextSteps ==
  \/ ByteIteration
  \/ ByteLoopEnds
  \/ IndexScanned
  \/ SearchRecursiveAllCall
  \/ FoldersSearched

SpecSteps == InitSteps /\ [][NextSteps]_vars

\* the call runs on one thread, synchronously: its next statement is executed
SpecTerm == SpecSteps /\ WF_vars(NextSteps)

(***************************************************************************)
(* PresenceService: getCoverUrl and its cache over the file finder, the    *)
(* awaits of getCoverUrl as steps                                          *)
(***************************************************************************)
InitCover ==
  \E upload \in BOOLEAN :
    /\ usersDir = TRUE
    /\ bnk = [p \in Profiles |-> NoBnk]
    /\ disk = FileSeq
    /\ musicFolders = <<>>
    /\ trackIds = { t.id : t \in CoverTracks }
    /\ denied = {}
    /\ watchers = {}
    /\ listeners = <<"c1">>
    /\ issued = {[id |-> 1, cb |-> "c1", called |-> FALSE]}
    /\ http = <<>>
    /\ lockFile = NoFile
    /\ procs = NoProcs
    /\ uploadService = upload
    /\ coverUrlCache = NoCovers
    /\ lookups = NoLookups
    /\ spotifyFilePathsCache = NoCache
    /\ lastBnkMtime = 0
    /\ bnkFileWatchersStarted = FALSE
    /\ pending = FALSE
    /\ clock = 0
    /\ pc = "idle"
    /\ call = NoCall
    /\ acc = <<>>
    /\ ret = NoRet
    /\ inval = FALSE
    /\ statAtLoad = [p \in Profiles |-> [present |-> FALSE, mtime |-> 0]]
    /\ flight = FALSE
    /\ noteAt = "none"

coverFrame ==
  <<usersDir, disk, musicFolders, trackIds, denied, finderVars, http, lockFile, procs,
    uploadService, pc, call, acc, inval, statAtLoad, flight, noteAt>>

\* the arrays getSpotifyLocalFilePaths can return here
CoverPathLists ==
  { <<>>, <<FileSong>>, <<FileRunLive>>, <<FileSong, FileRunLive>>, <<FileRunLive, FileSong>> }

\* findFileFromSpotifyDb(title, artist, album) per track id and path array,
\* evaluated once: it depends on nothing else
DbPathTable ==
  [x \in { t.id : t \in { u \in CoverTracks : u.source = "local" } } \X CoverPathLists |->
     BestMatch(DbMatches(parseLocalTrackInfo(x[1]), x[2]))] @@ <<>>

\* localFiles.findFile(trackId), a synchronous call: what findLocalFile
\* returns (value), and what getSpotifyLocalFilePaths leaves in
\* spotifyFilePathsCache and lastBnkMtime
FindFile(trackId) ==
  LET currentMtime == getBnkMtime
      cached == CacheAfterMtimeCheck(spotifyFilePathsCache, currentMtime)
      files  == IF cached.valid THEN cached.paths
                ELSE IF ~usersDir THEN <<>> ELSE LoadIndex
      dbPath == DbPathTable[<<trackId, files>>]
  IN  [value |-> IF dbPath.found THEN dbPath
                 ELSE BestMatch(FolderMatches(parseLocalTrackInfo(trackId), musicFolders)),
       cache |-> IF ~cached.valid /\ ~usersDir THEN NoCache
                 ELSE [valid |-> TRUE, paths |-> files],
       mtime |-> currentMtime]

\* this.coverUrlCache.set(track.id, url) by a lookup
CacheSet(cache, lookup, url) ==
  [cache EXCEPT ![lookup.track.id] = [has |-> TRUE, url |-> url, stale |-> lookup.stale]]

\* console.log("File not found"); this.coverUrlCache.set(track.id, null)
NotFoundCached(cache, lookup) == CacheSet(cache, lookup, NoUrl)

\* the this.coverUrlCache.set(track.id, ...) after an await
StoredBy(cache, lookup, url) == CacheSet(cache, lookup, url)

\* the promise of getCoverUrl is settled with url
Resolved(lookup, url) == [lookup EXCEPT !.pc = "resolved", !.value = url]

\* getCoverUrl(track) up to its first await or its return
GetCoverUrlOf(track) ==
  \E c \in Callers :
    /\ lookups[c].pc = "idle"
    /\ LET began == [NoLookup EXCEPT !.track = track]
       IN  IF track.source # "local" \/ ~uploadService
             THEN /\ lookups' = [lookups EXCEPT ![c] = Resolved(began, track.artworkUrl)]
                  /\ UNCHANGED <<coverUrlCache, spotifyFilePathsCache, lastBnkMtime,
                                 bnkFileWatchersStarted>>
           ELSE IF coverUrlCache[track.id].has
             THEN /\ lookups' = [lookups EXCEPT ![c] = Resolved(began, coverUrlCache[track.id].url)]
                  /\ UNCHANGED <<coverUrlCache, spotifyFilePathsCache, lastBnkMtime,
                                 bnkFileWatchersStarted>>
           ELSE LET found == FindFile(track.id)
                IN  /\ spotifyFilePathsCache' = found.cache
                    /\ lastBnkMtime' = found.mtime
                    /\ bnkFileWatchersStarted' = TRUE
                    /\ IF ~found.value.found
                         THEN /\ coverUrlCache' = NotFoundCached(coverUrlCache, began)
                              /\ lookups' = [lookups EXCEPT ![c] = Resolved(began, NoUrl)]
                         ELSE /\ coverUrlCache' = coverUrlCache
                              /\ lookups' = [lookups EXCEPT ![c] =
                                   [began EXCEPT !.pc = "extracting", !.filePath = found.value]]
    /\ UNCHANGED <<coverFrame, bnk, clock, pending, ret>>

GetCoverUrl == \E track \in CoverTracks : GetCoverUrlOf(track)

\* const cover = await extractCoverArt(filePath) settles
ExtractionDone ==
  \E c \in Callers :
    /\ lookups[c].pc = "extracting"
    /\ IF HasPicture(lookups[c].filePath.path)
         THEN /\ lookups' = [lookups EXCEPT ![c].pc = "uploading"]
              /\ coverUrlCache' = coverUrlCache
         ELSE /\ lookups' = [lookups EXCEPT ![c] = Resolved(lookups[c], NoUrl)]
              /\ coverUrlCache' = StoredBy(coverUrlCache, lookups[c], NoUrl)
    /\ UNCHANGED <<coverFrame, bnk, clock, pending, ret, spotifyFilePathsCache,
                   lastBnkMtime, bnkFileWatchersStarted>>

\* await this.uploadService.uploadCover(...) settles: with result.url, or it
\* throws and the catch stores null
UploadSettles(outcomes) ==
  \E c \in Callers, outcome \in outcomes :
    /\ lookups[c].pc = "uploading"
    /\ LET url == IF outcome = "url" THEN UrlOf(lookups[c].filePath.path) ELSE NoUrl
       IN  /\ lookups' = [lookups EXCEPT ![c] = Resolved(lookups[c], url)]
           /\ coverUrlCache' = StoredBy(coverUrlCache, lookups[c], url)
    /\ UNCHANGED <<coverFrame, bnk, clock, pending, ret, spotifyFilePathsCache,
                   lastBnkMtime, bnkFileWatchersStarted>>

\* updatePresence goes on after await presence.getCoverUrl(state.track): the
\* URL is in hand, and findLocalFile(state.track.id) is called for a local track
UpdatePresenceResumes ==
  \E c \in Callers :
    /\ lookups[c].pc = "resolved"
    /\ ret' = [kind |-> "cover", track |-> lookups[c].track, value |-> lookups[c].value]
    /\ lookups' = [lookups EXCEPT ![c] = NoLookup]
    /\ IF lookups[c].track.source = "local"
         THEN /\ spotifyFilePathsCache' = FindFile(lookups[c].track.id).cache
              /\ lastBnkMtime' = FindFile(lookups[c].track.id).mtime
              /\ bnkFileWatchersStarted' = TRUE
         ELSE UNCHANGED <<spotifyFilePathsCache, lastBnkMtime, bnkFileWatchersStarted>>
    /\ UNCHANGED <<coverFrame, bnk, clock, pending, coverUrlCache>>

\* Spotify rewrites the index file of a profile; a watch, where one is
\* attached, queues its callback
IndexModified(attachments) ==
  \E p \in Profiles, attached \in attachments : \E c \in IndexContents(p) :
    /\ clock < MaxClock
    /\ clock' = clock + 1
    /\ bnk' = [bnk EXCEPT ![p] = [present |-> TRUE, mtime |-> clock + 1, paths |-> c,
                                  readable |-> TRUE]]
    /\ pending' = (pending \/ BnkEvent(attached))
    /\ UNCHANGED <<coverFrame, presenceVars, ret, spotifyFilePathsCache, lastBnkMtime,
                   bnkFileWatchersStarted>>

\* the queued watch callback runs localFiles.clearCaches(true): the path cache
\* is dropped and the listener of the PresenceService constructor clears
\* coverUrlCache; every lookup waiting in an await began before it
ChangeNotified ==
  /\ pending
  /\ pending' = FALSE
  /\ spotifyFilePathsCache' = ClearedCache(spotifyFilePathsCache)
  /\ coverUrlCache' = (IF listeners = <<>> THEN coverUrlCache ELSE NoCovers)
  /\ lookups' = [c \in Callers |->
                   IF lookups[c].pc \in {"extracting", "uploading"}
                     THEN [lookups[c] EXCEPT !.stale = TRUE] ELSE lookups[c]]
  /\ UNCHANGED <<coverFrame, bnk, clock, ret, lastBnkMtime, bnkFileWatchersStarted>>

NextCover ==
  \/ GetCoverUrl
  \/ ExtractionDone
  \/ UploadSettles({"url", "throw"})
  \/ UpdatePresenceResumes
  \/ IndexModified(BOOLEAN)
  \/ ChangeNotified

SpecCover == InitCover /\ [][NextCover]_vars

\* no watch is attached (watch() threw) and the upload service is healthy
NextLazy ==
  \/ GetCoverUrl
  \/ ExtractionDone
  \/ UploadSettles({"url"})
  \/ UpdatePresenceResumes
  \/ IndexModified({FALSE})

\* the poller keeps asking for the cover of the track that plays, and every
\* await of a lookup settles
SpecLazy ==
  /\ InitCover
  /\ [][NextLazy]_vars
  /\ SF_vars(GetCoverUrlOf(TrackSong))
  /\ WF_vars(ExtractionDone)
  /\ WF_vars(UploadSettles({"url"}))
  /\ WF_vars(UpdatePresenceResumes)

(***************************************************************************)
(* The fault specification: the handlers over a file system part of which  *)
(* cannot be read.                                                         *)
(***************************************************************************)
InitFault ==
  \E present \in SUBSET FaultFiles, unreadable \in SUBSET FaultDirs :
    \E b1 \in FaultIndex("u1"), b2 \in FaultIndex("u2") :
      /\ usersDir = TRUE
      /\ bnk = [p \in Profiles |-> IF p = "u1" THEN b1 ELSE b2]
      /\ disk = SelectSeq(FaultSeq, LAMBDA f : f \in present)
      /\ musicFolders = <<RootM, RootN>>
      /\ trackIds = {LocSong}
      /\ denied = unreadable
      /\ watchers = {}
      /\ listeners = <<>>
      /\ issued = {}
      /\ http = <<>>
      /\ lockFile = NoFile
      /\ procs = NoProcs
      /\ uploadService = FALSE
      /\ coverUrlCache = NoCovers
      /\ lookups = NoLookups
      /\ spotifyFilePathsCache = NoCache
      /\ lastBnkMtime = 0
      /\ bnkFileWatchersStarted = FALSE
      /\ pending = FALSE
      /\ clock = 1
      /\ pc = "idle"
      /\ call = NoCall
      /\ acc = <<>>
      /\ ret = NoRet
      /\ inval = FALSE
      /\ statAtLoad = [p \in Profiles |-> [present |-> FALSE, mtime |-> 0]]
      /\ flight = FALSE
      /\ noteAt = "none"

NextFault ==
  \/ GetSpotifyLocalFilePaths
  \/ FindLocalFile
  \/ FinishRead

SpecFault == InitFault /\ [][NextFault]_vars

(***************************************************************************)
(* Properties.  ret is the record of the call that has just returned.      *)
(***************************************************************************)
\* a handler returned after going through getSpotifyLocalFilePaths
Returned == ret.kind = "ret" /\ ret.indexRead

\* findLocalFile returned after its folder scan
Scanned == Returned /\ ret.op = "find" /\ ~ret.dbFound

\* the folder matcher's keys for descriptor info and file f
KeysOf(info, f) == FolderKeys(info.title, info.artist, NameWithoutExt(f))

\* the base score the rule chain gives file f
RuleOf(info, f) == FolderRule(info.title, info.artist, NameWithoutExt(f))

\* same directory and same extension
SameBonus(f, g) ==
  f.dir = g.dir /\ ToLower[ExtName[f.name]] = ToLower[ExtName[g.name]]

\* the name key of f equals the (non-empty) title key
ExactFor(info, f) ==
  /\ KeysOf(info, f).titleNorm # <<>>
  /\ KeysOf(info, f).nameNorm = KeysOf(info, f).titleNorm

\* the name key of g equals the title key only once the qualifiers are stripped
QualifiedFor(info, g) ==
  /\ KeysOf(info, g).nameNorm # KeysOf(info, g).titleNorm
  /\ KeysOf(info, g).nameNoExtra = KeysOf(info, g).titleNoExtra

\* C1: of two candidates in one directory with one extension, one whose name
\* key equals the title key and one whose key equals it only after a qualifier
\* is stripped, findLocalFile returns the exact one, from the index or from the
\* folders, in either order of discovery.
C1_ExactBeatsQualified ==
  (Returned /\ ret.op = "find") =>
    \A f \in Range(disk), g \in Range(disk) :
      (SameBonus(f, g) /\ ExactFor(ret.info, f) /\ QualifiedFor(ret.info, g))
        => ret.value = Found(f)

ExactTiers == {100, 75, 80, 70}

LooseTiers == {50, 30}

\* f matched by substring or space-blind containment and not artist-assisted
LooseOnly(info, f) ==
  RuleOf(info, f) \in LooseTiers /\ ~ArtistAssisted(KeysOf(info, f))

\* C2: in the folder scan every candidate matched by an equality rule totals
\* strictly more, bonuses included, than every candidate matched only by
\* substring or space-blind containment that is not artist-assisted.
C2_ExactOutranksLoose ==
  Scanned =>
    \A i \in DOMAIN ret.matches, j \in DOMAIN ret.matches :
      (/\ RuleOf(ret.info, ret.matches[i].path) \in ExactTiers
       /\ LooseOnly(ret.info, ret.matches[j].path))
        => ret.matches[i].score > ret.matches[j].score

\* "<T> (Live).<ext>"
LiveName(info, ext) == info.title \o <<" ","(","L","i","v","e",")">> \o ext

\* "<A> - <T>.<ext>"
ArtistTitleName(info, ext) == info.artist \o <<" ","-"," ">> \o info.title \o ext

\* C3: given "<T> (Live).<ext>" and "<A> - <T>.<ext>" in one directory, the
\* folder scan of findLocalFile selects "<A> - <T>.<ext>".
C3_ArtistTitleBeatsLive ==
  Scanned =>
    \A f \in Range(disk), g \in Range(disk) :
      (/\ f.dir = g.dir
       /\ \E ext \in ScanExtensions :
            /\ f.name = LiveName(ret.info, ext)
            /\ g.name = ArtistTitleName(ret.info, ext))
        => ret.value = Found(g)

\* the name key holds the artist key and the title key
HoldsArtistAndTitle(k) ==
  /\ k.artistNorm # <<>>
  /\ Includes[k.nameNorm, k.artistNorm]
  /\ Includes[k.nameNorm, k.titleNorm]

\* C4: in the folder scan a candidate whose name key holds both the artist key
\* and the title key, and that fires no equality rule, totals strictly more
\* than a candidate with equal bonuses matched only by substring or
\* space-blind containment.
C4_ArtistAssistedBeatsLoose ==
  Scanned =>
    \A i \in DOMAIN ret.matches, j \in DOMAIN ret.matches :
      (/\ HoldsArtistAndTitle(KeysOf(ret.info, ret.matches[i].path))
       /\ RuleOf(ret.info, ret.matches[i].path) \notin ExactTiers
       /\ LooseOnly(ret.info, ret.matches[j].path)
       /\ SameBonus(ret.matches[i].path, ret.matches[j].path))
        => ret.matches[i].score > ret.matches[j].score

\* the index matcher's first variant of the name of f
IndexNameKey(f) == normalizeForMatch(BaseName[f.name, ExtName[f.name]])

\* C5: an empty key never matches: no candidate matched by the folder scan or
\* by the index matcher has an empty name key, and none is matched for a
\* descriptor whose title key is empty.
C5_EmptyKeyNeverMatches ==
  (Returned /\ ret.op # "paths") =>
    /\ \A i \in DOMAIN ret.matches :
         /\ KeysOf(ret.info, ret.matches[i].path).nameNorm # <<>>
         /\ KeysOf(ret.info, ret.matches[i].path).titleNorm # <<>>
    /\ \A i \in DOMAIN ret.dbMatches :
         /\ IndexNameKey(ret.dbMatches[i].path) # <<>>
         /\ normalizeForMatch(ret.info.title) # <<>>

\* C6: a call that finds the cache invalidated (by a delivered notification,
\* by clearCaches or by a modification-time mismatch) re-reads the index files
\* and returns what they list at that call.
C6_InvalidatedCacheIsReread ==
  (Returned /\ ret.invalidated) =>
    /\ ret.reloaded
    /\ ~flight => ret.paths = LoadIndex

\* C6 witness: the index changed, the cache was invalidated, and the call
\* returned the files the index now lists.
C6_RereadSeen ==
  /\ Returned
  /\ ret.op = "paths"
  /\ ret.invalidated
  /\ ret.changed
  /\ ~flight
  /\ ret.paths # <<>>

\* C7: a notification raised while a rebuild is in flight is not lost: it
\* waits until the rebuild has stored its snapshot, and once its callback has
\* run the snapshot is gone, so no later call is served from it.
C7_InFlightInvalidationKept ==
  /\ noteAt = "queued" => pending
  /\ noteAt = "delivered" => (~spotifyFilePathsCache.valid /\ inval)

\* C7 witness: the callback of a notification raised during a rebuild has run
\* after the rebuild stored its snapshot.
C7_LateCallbackSeen == noteAt = "delivered" /\ pc = "idle" /\ ~pending

\* C8: when an index file was written, created or deleted since the last
\* load, the next call discards the cached collection and reloads.
C8_ChangedIndexReloads == (Returned /\ ret.changed) => ret.reloaded

\* C9: a path returned by findFileFromSpotifyDb or findLocalFile names a file
\* that exists when the call returns (no file having changed during the call).
C9_ReturnedPathExists ==
  (ret.kind = "ret" /\ ~flight /\ ret.value.found) => ExistsSync(ret.value.path)

\* C10: findLocalFile consults the index first; an index match is returned
\* with no folder read; without one every configured folder is scanned and the
\* best-scoring candidate, or none, is returned.
C10_IndexFirstThenFolders ==
  (Returned /\ ret.op = "find") =>
    /\ ret.dbMatches = DbMatches(ret.info, ret.paths)
    /\ IF BestMatch(ret.dbMatches).found
         THEN /\ ret.value = BestMatch(ret.dbMatches)
              /\ ret.scanned = <<>>
              /\ ret.matches = <<>>
         ELSE /\ ret.scanned = musicFolders
              /\ ret.matches = FolderMatches(ret.info, musicFolders)
              /\ ret.value = BestMatch(ret.matches)

\* C10 witness: the index gave no match and the folder scan found the file.
C10_FallbackSeen ==
  /\ Returned
  /\ ret.op = "find"
  /\ ~ret.dbFound
  /\ ret.scanned = musicFolders
  /\ ret.value.found

(***************************************************************************)
(* The parser's claims, over the parser specification.                     *)
(***************************************************************************)
\* the entries of the pool the call that returned was asked about
Asked == { x \in ParsePool : x.loc \in trackIds }

FoundNothingUnread ==
  /\ ret.kind = "ret"
  /\ ret.info = [kind |-> "null"]
  /\ ret.value = NotFound
  /\ ~ret.indexRead
  /\ ret.scanned = <<>>
  /\ spotifyFilePathsCache = NoCache
  /\ ~bnkFileWatchersStarted
  /\ lastBnkMtime = 0

\* C11: a locator that does not begin with the local-track prefix has no
\* descriptor, and findLocalFile answers not-found for it without reading
\* the index or scanning a folder.
C11_ForeignLocatorNotFound ==
  (ret.kind # "none" /\ ret.op = "find")
    => \A x \in Asked : x.prefix # LocalPrefix => FoundNothingUnread

C11_StreamLocatorAsked ==
  /\ ret.kind = "ret"
  /\ ret.op = "find"
  /\ \E x \in Asked : x.prefix = StreamPrefix /\ Len(x.segs) = 4

\* C12: parseLocalTrackInfo and findLocalFile never throw: a locator with
\* the prefix but malformed gives not-found.
C12_NeverThrows ==
  ret.kind # "throw"

\* what the fields of the pool stand for
Decodable == ParseFields \ { <<"1","0","0","%">>, <<"%","E","9">> }

Meaning(field) ==
  CASE field = <<"A","+","B">> -> <<"A"," ","B">>
    [] field = <<"A","%","2","0","B">> -> <<"A"," ","B">>
    [] field = <<"%","2","B","%","3","A">> -> <<"+",":">>
    [] field = <<"%","C","3","%","A","9">> -> <<"eacute">>
    [] OTHER -> field

\* C13: a prefixed locator with fewer than three fields has no descriptor;
\* with three or more, the descriptor's artist, album and title are the first
\* three fields with "+" read as a space and the escapes decoded.
C13_DescriptorIsDecodedFields ==
  (ret.kind # "none" /\ ret.op = "find")
    => \A x \in Asked :
         x.prefix = LocalPrefix =>
           /\ Len(x.segs) < 3 => ret.kind = "ret" /\ ret.info = [kind |-> "null"]
           /\ (Len(x.segs) >= 3 /\ \A i \in 1..3 : x.segs[i] \in Decodable) =>
                /\ ret.kind = "ret"
                /\ ret.info = [kind |-> "ok",
                               artist |-> Meaning(x.segs[1]),
                               album |-> Meaning(x.segs[2]),
                               title |-> Meaning(x.segs[3])]

C13_EscapedFieldsParsed ==
  /\ ret.kind = "ret"
  /\ ret.op = "find"
  /\ \E x \in Asked :
       /\ x.prefix = LocalPrefix
       /\ x.segs = << <<>>, <<"A","+","B">>, <<"%","2","B","%","3","A">>, ParseDuration >>
  /\ ret.info.kind = "ok"

(***************************************************************************)
(* The format preference                                                   *)
(***************************************************************************)
Lossless(f) == ToLower[ExtName[f.name]] \in {ExtFlac, ExtWav}

\* the album bonus of the directory of f, without the format bonus
AlbumBonus(info, f) == FolderBonus(info.album, f.dir, ExtMp3)

\* f is lossless, g is lossy, both fire the same rule of the chain and get
\* the same album bonus
FormatAloneDiffers(info, f, g) ==
  /\ Lossless(f)
  /\ ~Lossless(g)
  /\ RuleOf(info, f) > 0
  /\ RuleOf(info, f) = RuleOf(info, g)
  /\ AlbumBonus(info, f) = AlbumBonus(info, g)

\* C14: of two candidates that fire the same rule and get the same album
\* bonus, one lossless and one lossy, findLocalFile returns the lossless one,
\* in either order of discovery.
C14_LosslessPreferred ==
  (Returned /\ ret.op = "find")
    => \A f \in Range(disk) : \A g \in Range(disk) :
         FormatAloneDiffers(ret.info, f, g) => ret.value = Found(f)

(***************************************************************************)
(* The space-blind rule                                                    *)
(***************************************************************************)
\* the keys of the name and the title differ, and only by whitespace
SpaceApart(k) == k.nameNorm # k.titleNorm /\ k.nameNoSpace = k.titleNoSpace

\* a rule of the chain other than the space-blind one fires
OtherRuleFires(k) ==
  \/ k.nameNorm = k.titleNorm
  \/ k.nameNoExtra = k.titleNoExtra
  \/ k.nameNoNum = k.titleNorm
  \/ k.nameNoExtraNoNum = k.titleNoExtra
  \/ /\ Len(k.titleNoExtra) >= 4
     /\ \/ Includes[k.nameNoExtra, k.titleNoExtra]
        \/ Includes[k.nameNoNum, k.titleNoExtra]
        \/ Includes[k.nameNoExtraNoNum, k.titleNoExtra]
  \/ ArtistAssisted(k)

SpaceBlindFloor == 5

\* C15: a sole candidate whose name key differs from the title key only by
\* whitespace is returned, and scored by the space-blind rule (30 plus its
\* bonuses) when the folder scan finds it, if the space-blind title key has
\* five characters or more; with fewer and no other rule firing, the scan
\* does not match it.
C15_SpaceBlindNeedsFive ==
  (Returned /\ ret.op = "find" /\ Len(disk) = 1 /\ SpaceApart(KeysOf(ret.info, disk[1])))
    => IF Len(KeysOf(ret.info, disk[1]).titleNoSpace) >= SpaceBlindFloor
         THEN /\ ret.value = Found(disk[1])
              /\ Scanned =>
                   ret.matches =
                     <<[path |-> disk[1],
                        score |-> 30 + FolderBonus(ret.info.album, disk[1].dir,
                                                   ToLower[ExtName[disk[1].name]])]>>
         ELSE (Scanned /\ ~OtherRuleFires(KeysOf(ret.info, disk[1])))
                => ret.value = NotFound /\ ret.matches = <<>>

C15_SpaceBlindMatchSeen ==
  /\ Scanned
  /\ Len(disk) = 1
  /\ SpaceApart(KeysOf(ret.info, disk[1]))
  /\ Len(KeysOf(ret.info, disk[1]).titleNoSpace) >= SpaceBlindFloor
  /\ ret.value = Found(disk[1])

C15_ShortTitleUnmatchedSeen ==
  /\ Scanned
  /\ Len(disk) = 1
  /\ SpaceApart(KeysOf(ret.info, disk[1]))
  /\ Len(KeysOf(ret.info, disk[1]).titleNoSpace) < SpaceBlindFloor
  /\ ~OtherRuleFires(KeysOf(ret.info, disk[1]))
  /\ ret.value = NotFound

(***************************************************************************)
(* Memoization of the index                                                *)
(***************************************************************************)
\* a handler begins in this step, right after a call returned: no clearCaches
\* and no change of the environment lies between the two calls, and the index
\* files are as the first call read them
NextCallFollows ==
  /\ Returned
  /\ pc = "idle"
  /\ ~inval
  /\ BnkStat = statAtLoad
  /\ pc' = "reading" \/ (ret'.kind = "ret" /\ ret'.indexRead)

\* C16: of two consecutive calls with no invalidation and no change of an
\* index file between them, the second returns the collection the first
\* left in the cache and reads nothing.
C16_SecondCallIsCached ==
  [][NextCallFollows =>
       /\ spotifyFilePathsCache.valid
       /\ spotifyFilePathsCache' = spotifyFilePathsCache
       /\ ret'.kind = "ret"
       /\ ~ret'.reloaded
       /\ ret'.paths = spotifyFilePathsCache.paths]_vars

(***************************************************************************)
(* Faults of the file system                                               *)
(***************************************************************************)
\* every directory from the configured folder root down to the one of f
\* can be read
ReadableFrom(root, f) ==
  /\ IsPrefix(root, f.dir)
  /\ \A n \in Len(root)..Len(f.dir) : SubSeq(f.dir, 1, n) \notin denied

\* the files on disk the scan can get to
Reached ==
  { f \in Range(disk) : \E i \in DOMAIN musicFolders : ReadableFrom(musicFolders[i], f) }

\* C17: a directory that cannot be read costs the scan that directory's
\* subtree only: findLocalFile does not throw, and the candidates of the
\* sibling directories and of the other configured folders are scored and
\* one of them is returned.
C17_UnreadableDirSkipsSubtreeOnly ==
  (ret.kind # "none" /\ ret.op = "find")
    => /\ ret.kind = "ret"
       /\ Scanned =>
            /\ { ret.matches[i].path : i \in DOMAIN ret.matches } = Reached
            /\ Reached # {} => ret.value.found /\ ret.value.path \in Reached

C17_SiblingsScoredSeen ==
  /\ Scanned
  /\ denied = {DirAlbum}
  /\ Range(disk) = FaultFiles
  /\ { ret.matches[i].path : i \in DOMAIN ret.matches } = {FileSong, FileEpSong, FileNSong}

\* C18: an index file that cannot be read contributes nothing, and the
\* entries of every other profile's index file are still loaded; the call
\* does not throw.
C18_OtherProfilesStillLoaded ==
  Returned
    => \A p \in Profiles :
         (bnk[p].present /\ bnk[p].readable)
           => \A i \in DOMAIN bnk[p].paths :
                ExistsSync(bnk[p].paths[i]) => bnk[p].paths[i] \in Range(ret.paths)

(***************************************************************************)
(* Folder watchers and listeners                                           *)
(***************************************************************************)
\* C19: in every reachable state of the finder a folder watch handle is open
\* only while at least one listener is subscribed.
C19_WatchOnlyWhileSubscribed ==
  watchers # {} => listeners # <<>>

(***************************************************************************)
(* The normalizer                                                          *)
(***************************************************************************)
\* C20: normalizeString in its default mode is idempotent: applied to its
\* own result it returns that result.
C20_NormalizeIdempotent ==
  (ret.kind = "value" /\ ret.times = 2) => ret.value = ret.arg

C20_NormalizedTwiceSeen ==
  /\ ret.kind = "value"
  /\ ret.times = 2
  /\ call.arg = <<" ","1","0","0","%"," ","B","&","B"," ">>
  /\ ret.value = <<"1","0","0"," ","b"," ","b">>

\* C21: the result of normalizeString holds no "%"; with stripExtra it holds
\* no parenthesized or bracketed span; with stripNumbers it does not begin
\* with a digit.
C21_StrippedResultIsClean ==
  ret.kind = "flagged"
    => /\ "%" \notin Range(ret.value)
       /\ ret.stripExtra => Range(ret.value) \cap {"(", ")", "[", "]"} = {}
       /\ ret.stripNumbers => (ret.value = <<>> \/ Head(ret.value) \notin Digits)

\* the letters of the model that slugify has no transliteration for
Untransliterated == {"cjk1", "cjk2"}

\* C22: a title written in letters without a transliteration keeps them in
\* its key: the key is not empty.
C22_UntransliteratedLettersKept ==
  (ret.kind = "value" /\ ret.times = 1 /\ ret.arg # <<>>
     /\ Range(ret.arg) \subseteq Untransliterated)
    => ret.value # <<>>

(***************************************************************************)
(* The upload module                                                       *)
(***************************************************************************)
\* the PUT exchanges so far
Puts == SelectSeq(http, LAMBDA x : x.method = "PUT")

\* a response with status 429 or 5xx
Transient(resp) ==
  resp.kind = "status" /\ (resp.status = 429 \/ resp.status \in 500..599)

\* a response with another failure status
Permanent(resp) ==
  resp.kind = "status" /\ ~(resp.status \in 200..299) /\ ~Transient(resp)

C24_HeadBeforePut ==
  (call.op \in {"uploadIfNotExists", "uploadCover"} /\ http # <<>>)
    => /\ http[1].method = "HEAD"
       /\ \A i \in 2..Len(http) : http[i].method = "PUT"
       /\ IF http[1].resp.kind = "status" /\ http[1].resp.status \in 200..299
            THEN /\ Len(http) = 1
                 /\ ret.kind = "ret" /\ ret.existed /\ ret.url = "head"
            ELSE /\ ret.kind # "none" => Len(http) >= 2
                 /\ ret.kind = "ret" => ~ret.existed /\ ret.url = "put"
                 /\ Len(http) = 1 => pc = "put"

C24_ExistingCoverSeen ==
  /\ call.op = "uploadCover"
  /\ Len(http) = 1
  /\ http[1] = [method |-> "HEAD", resp |-> [kind |-> "status", status |-> 200]]
  /\ ret.kind = "ret"
  /\ ret.existed

(***************************************************************************)
(* The sidecar lock                                                        *)
(***************************************************************************)
\* the processes to which acquireLock returned true and that still run
Holders == { p \in Pids : procs[p].pc = "held" }

\* C25: acquireLock gives mutual exclusion: under every interleaving of two
\* sidecar processes at most one of them holds the lock at a time.
C25_MutualExclusion == Cardinality(Holders) <= 1

(***************************************************************************)
(* One rule per candidate                                                  *)
(***************************************************************************)
\* which of the seven rules fire on the keys k, in the order of the chain
RuleFires(k) ==
  << k.nameNorm = k.titleNorm,
     k.nameNoExtra = k.titleNoExtra,
     k.nameNoNum = k.titleNorm,
     k.nameNoExtraNoNum = k.titleNoExtra,
     /\ Len(k.titleNoExtra) >= 4
     /\ \/ Includes[k.nameNoExtra, k.titleNoExtra]
        \/ Includes[k.nameNoNum, k.titleNoExtra]
        \/ Includes[k.nameNoExtraNoNum, k.titleNoExtra],
     /\ Len(k.titleNoSpace) >= 5
     /\ \/ k.nameNoSpace = k.titleNoSpace
        \/ Includes[k.nameNoSpace, k.titleNoSpace]
        \/ Includes[k.titleNoSpace, k.nameNoSpace],
     ArtistAssisted(k) >>

\* the base scores of the seven rules, in the order of the chain
RuleBase == <<100, 75, 80, 70, 50, 30, 85>>

FiredRules(k) ==
  LET fires == RuleFires(k)
  IN  { r \in DOMAIN RuleBase : fires[r] }

FirstFired(fired) == CHOOSE r \in fired : \A q \in fired : r <= q

\* the entries of the candidate list for file f
EntriesOf(f) == { i \in DOMAIN ret.matches : ret.matches[i].path = f }

NoExactRule(k) ==
  /\ k.nameNorm # k.titleNorm
  /\ k.nameNoExtra # k.titleNoExtra
  /\ k.nameNoNum # k.titleNorm
  /\ k.nameNoExtraNoNum # k.titleNoExtra

\* one key holds the other, neither being empty
EitherHolds(a, b) ==
  a # <<>> /\ b # <<>> /\ (Includes[a, b] \/ Includes[b, a])

\* the stripped variants of the candidate key, and the score of each
SubstringVariants(k) == << k.nameNoExtra, k.nameNoNum, k.nameNoExtraNoNum >>

SubstringScores == <<50, 45, 40>>

\* the variants through which the candidate and the title contain one another
SubstringHits(k) ==
  { v \in 1..3 : EitherHolds(SubstringVariants(k)[v], k.titleNoExtra) }

\* the base score of the candidate list's entry i
BaseOf(i) ==
  ret.matches[i].score
    - FolderBonus(ret.info.album, ret.matches[i].path.dir,
                  ToLower[ExtName[ret.matches[i].path.name]])

\* C27: after a folder scan a candidate that fires none of the exact rules
\* has the substring rule's base score iff the qualifier-stripped title key
\* has four characters or more and the title key and a stripped candidate
\* key contain one another, in either direction; that base score is 50, 45
\* or 40 for the first, second or third stripped variant that matched.
C27_SubstringEitherWay ==
  Scanned
    => \A f \in Range(disk) :
         LET k == KeysOf(ret.info, f)
             hits == SubstringHits(k)
         IN  NoExactRule(k)
               => IF Len(k.titleNoExtra) >= 4 /\ hits # {}
                    THEN \E i \in EntriesOf(f) :
                           BaseOf(i) = SubstringScores[FirstFired(hits)]
                    ELSE \A i \in EntriesOf(f) :
                           BaseOf(i) \notin Range(SubstringScores)

(***************************************************************************)
(* The bonuses                                                             *)
(***************************************************************************)
\* the two bonuses of a candidate with extension ext for the album, where
\* place is its directory (folder scan) or its whole path (index)
TwoBonuses(album, place, ext) ==
  (IF /\ normalizeString(album, FALSE, FALSE) # <<>>
      /\ Includes[ToLower[place], normalizeString(album, FALSE, FALSE)]
     THEN 20 ELSE 0)
  + (IF ext \in {ExtFlac, ExtWav} THEN 5 ELSE 0)

\* the path of file f as a string
PathString(f) == DirString[f.dir] \o <<"/">> \o f.name

\* the total of a folder candidate is its base score and the two bonuses
FolderTotals ==
  \A i \in DOMAIN ret.matches :
    ret.matches[i].score
      = RuleOf(ret.info, ret.matches[i].path)
        + TwoBonuses(ret.info.album, DirString[ret.matches[i].path.dir],
                     ToLower[ExtName[ret.matches[i].path.name]])

\* the total of an index candidate is its base score and the two bonuses
IndexTotals ==
  \A i \in DOMAIN ret.dbMatches :
    ret.dbMatches[i].score
      = IndexBase(IndexKeys(ret.info.title, ret.info.artist, ret.dbMatches[i].path))
        + TwoBonuses(ret.info.album, PathString(ret.dbMatches[i].path),
                     ToLower[ExtName[ret.dbMatches[i].path.name]])

\* C28: the total of every matched candidate, of the folder scan and of the
\* index alike, is its base score plus 20 iff the non-empty album key is in
\* its directory or index path, plus 5 iff its extension is flac or wav,
\* and nothing else.
C28_AlbumAndFormatBonusOnly ==
  (Returned /\ ret.op = "find") => (FolderTotals /\ IndexTotals)

(***************************************************************************)
(* Selection and discovery order                                           *)
(***************************************************************************)
\* the candidate list findLocalFile answered from
Answering == IF ret.dbFound THEN ret.dbMatches ELSE ret.matches

\* the position of path f in the index
IndexPos(f) == CHOOSE n \in DOMAIN ret.paths : ret.paths[n] = f

\* the position of the configured folder that holds f
RootPos(f) == CHOOSE n \in DOMAIN musicFolders : IsPrefix(musicFolders[n], f.dir)

\* the scan must discover f before g: f lies in an earlier configured
\* folder, or in a directory above that of g
DiscoveredBefore(f, g) ==
  \/ RootPos(f) < RootPos(g)
  \/ RootPos(f) = RootPos(g) /\ IsPrefix(f.dir, g.dir) /\ f.dir # g.dir

\* C29: findLocalFile returns the first candidate of highest total of the
\* list it answers from; the index candidates are listed in index order,
\* the candidates of the folder scan by configured folder in list order,
\* the files of a directory before everything in its subdirectories.
C29_HighestThenFirstDiscovered ==
  (Returned /\ ret.op = "find")
    => /\ Answering = <<>> => ret.value = NotFound
       /\ Answering # <<>> =>
            \E i \in DOMAIN Answering :
              /\ ret.value = Found(Answering[i].path)
              /\ \A j \in DOMAIN Answering : Answering[j].score <= Answering[i].score
              /\ \A j \in 1..(i - 1) : Answering[j].score < Answering[i].score
       /\ \A i \in DOMAIN ret.dbMatches : \A j \in DOMAIN ret.dbMatches :
            i < j => IndexPos(ret.dbMatches[i].path) < IndexPos(ret.dbMatches[j].path)
       /\ \A i \in DOMAIN ret.matches : \A j \in DOMAIN ret.matches :
            i < j => ~DiscoveredBefore(ret.matches[j].path, ret.matches[i].path)

\* two candidates tie; the one of the first configured folder is returned
\* although readdirSync lists the other one first
C29_TieAcrossFoldersSeen ==
  /\ Scanned
  /\ Len(disk) = 2
  /\ Len(ret.matches) = 2
  /\ ret.matches[1].score = ret.matches[2].score
  /\ ret.matches[1].path = disk[2]
  /\ disk[2].dir = musicFolders[1]
  /\ disk[1].dir = musicFolders[2]
  /\ ret.value = Found(disk[2])

(***************************************************************************)
(* The depth of the scan                                                   *)
(***************************************************************************)
\* the directories from the configured folder root down to that of f, below
\* root itself
Below(root, f) == { f.dir[n] : n \in (Len(root) + 1)..Len(f.dir) }

\* f lies in configured folder root, at most five levels down, under no
\* skipped directory
WithinReach(root, f) ==
  /\ IsPrefix(root, f.dir)
  /\ Len(f.dir) - Len(root) <= 5
  /\ \A name \in Below(root, f) : Head(name) # "." /\ name \notin DenyList

\* C30: the candidates of a folder scan are the audio files that lie at
\* most five levels below a configured folder and under no skipped
\* directory: no deeper file is a candidate, every such file is one.
C30_DepthFive ==
  Scanned
    => { ret.matches[i].path : i \in DOMAIN ret.matches }
         = { f \in Range(disk) :
               \E n \in DOMAIN musicFolders : WithinReach(musicFolders[n], f) }

C30_DeepFileLeftOutSeen ==
  /\ Scanned
  /\ \E f \in Range(disk) : f.dir = DirDeep(6)
  /\ \E i \in DOMAIN ret.matches : ret.matches[i].path.dir = DirDeep(5)
  /\ \A i \in DOMAIN ret.matches : ret.matches[i].path.dir # DirDeep(6)

(***************************************************************************)
(* What the scan leaves out                                                *)
(***************************************************************************)
\* a name that begins with "."
Hidden(name) == name # <<>> /\ Head(name) = "."

\* the directory names the scan is to stay out of
ExcludedNames ==
  { <<"n","o","d","e","_","m","o","d","u","l","e","s">>,
    <<"L","i","b","r","a","r","y">>,
    <<"S","y","s","t","e","m">>,
    <<"A","p","p","l","i","c","a","t","i","o","n","s">> }

\* the extensions of the folder scan, lower case
AudioExtensions ==
  { <<".","m","p","3">>, <<".","m","4","a">>, <<".","f","l","a","c">>,
    <<".","w","a","v">>, <<".","o","g","g">>, <<".","o","p","u","s">> }

\* f may be a candidate of the folder scan
Scannable(f) ==
  /\ ~Hidden(f.name)
  /\ \A n \in DOMAIN f.dir : ~Hidden(f.dir[n]) /\ f.dir[n] \notin ExcludedNames
  /\ ToLower[ExtName[f.name]] \in AudioExtensions

\* C31: no candidate of a folder scan, and no file it returns, is a hidden
\* entry, lies under a hidden directory or under a directory named
\* node_modules, Library, System or Applications, or has an extension other
\* than mp3, m4a, flac, wav, ogg, opus in any case.
C31_SkippedNeverScored ==
  Scanned
    => /\ \A i \in DOMAIN ret.matches : Scannable(ret.matches[i].path)
       /\ ret.value.found => Scannable(ret.value.path)

(***************************************************************************)
(* Folder watch notifications                                              *)
(***************************************************************************)
\* the notification names a relevant file: no file name, ".DS_Store", or a
\* file with an audio extension in any case
NamesRelevantFile(ev) ==
  \/ ~ev.given
  \/ ev.name = <<".","D","S","_","S","t","o","r","e">>
  \/ ToLower[ExtName[LastSegment[ev.name]]] \in AudioExtensions

\* C32: a folder watch notification drops the cached index and calls every
\* listener iff it names a relevant file; any other notification leaves the
\* cached index as it was and calls no listener.
C32_OnlyRelevantEventsInvalidate ==
  ret.kind = "event"
    => IF NamesRelevantFile(ret.ev)
         THEN ret.after = NoCache /\ ret.notified = ret.listeners
         ELSE ret.after = ret.before /\ ret.notified = <<>>

C32_AudioEventClearsSeen ==
  /\ ret.kind = "event"
  /\ ret.ev.given
  /\ ret.ev.name = <<"S","o","n","g",".","F","L","A","C">>
  /\ ret.before.valid
  /\ ret.after = NoCache
  /\ Len(ret.notified) = 2

C32_OtherEventIgnoredSeen ==
  /\ ret.kind = "event"
  /\ ret.ev.given
  /\ ret.ev.name = <<"n","o","t","e","s",".","t","x","t">>
  /\ ret.before.valid
  /\ ret.after = ret.before
  /\ ret.listeners # <<>>

(***************************************************************************)
(* The index reader                                                        *)
(***************************************************************************)
\* the paths on disk that stand somewhere in the buffer read
PathsInBuffer == { p \in call.exists : Includes[call.buffer, p] }

\* where path p first stands in the buffer read
FirstAt(p) ==
  CHOOSE k \in 0..Len(call.buffer) :
    /\ Subarray(call.buffer, k, k + Len(p)) = p
    /\ \A h \in 0..(k - 1) : Subarray(call.buffer, h, h + Len(p)) # p

\* C33: the paths read from an index file are the absolute paths ending in
\* a known audio extension that exist on disk and stand anywhere in the
\* file, each once, in the order of their first occurrence, whatever their
\* length or leading directory, also when the name of a directory holds an
\* extension.
C33_EveryEmbeddedPathRecorded ==
  ret.kind = "bytes"
    => /\ Range(ret.value) = PathsInBuffer
       /\ Len(ret.value) = Cardinality(PathsInBuffer)
       /\ \A i \in DOMAIN ret.value : \A j \in DOMAIN ret.value :
            i < j => FirstAt(ret.value[i]) < FirstAt(ret.value[j])

\* the byte scan moved on within one index file
SameBuffer == pc = "bytes" /\ pc' = "bytes" /\ call'.b = call.b

\* a directory the tree holds below the depth the scan reaches
TooDeepDirs ==
  { Append(e.dir, e.name) : e \in { x \in Range(call.tree.entries) : x.kind = "dir" /\ Len(x.dir) > MaxDepth } }

\* C34: every findLocalFile call returns, whatever the index files and the
\* directory tree hold: until it has returned a step of its own is always
\* possible (it waits on nothing outside), every byte-scan iteration moves the
\* position forward, no pending recursive call is deeper than one level past
\* depth 5, and no directory is read twice although the tree holds links back
\* to directories above them.
C34_FindLocalFileTerminates ==
  /\ <>(pc = "done")
  /\ [](pc # "done" => ENABLED NextSteps)
  /\ [][SameBuffer => call'.i > call.i /\ call'.i <= Len(call.buffers[call.b])]_vars
  /\ [](\A k \in DOMAIN call.stack : call.stack[k].depth <= MaxDepth + 1)
  /\ [](\A j, k \in DOMAIN acc : acc[j] = acc[k] => j = k)
  /\ [](\A k \in DOMAIN acc : Len(acc[k]) <= MaxDepth + 1)

\* a call has returned after several byte-scan iterations and a folder scan
\* that reached depth 5, left a deeper directory unread and passed links that
\* point back up the tree
C34_DeepTreeWithLinksScannedSeen ==
  /\ pc = "done"
  /\ ret.from = "folders"
  /\ Len(call.paths) >= 2
  /\ \E k \in DOMAIN acc : Len(acc[k]) = MaxDepth + 1
  /\ TooDeepDirs # {}
  /\ \E e \in Range(call.tree.entries) : e.kind = "link" /\ IsPrefix(e.to, e.dir)

\* the subscriptions whose unsubscribe function has not been called
LiveSubscriptions == { s \in issued : ~s.called }

\* how many times callback stands in the listener list ls
Registered(ls, callback) == Cardinality({ k \in DOMAIN ls : ls[k] = callback })

\* C35: subscriptions are counted one by one: after every step each callback
\* stands in the listener list once per subscription to it whose unsubscribe
\* function has not been called (so a callback registered twice and
\* unsubscribed once is still notified, and a second call of an unsubscribe
\* function removes nothing), and a step that removes a listener while another
\* subscription is still live leaves the folder watch handles open.
C35_CountedPerSubscription ==
  [][ /\ \A cb \in Callbacks :
           Registered(listeners', cb)
             = Cardinality({ s \in issued' : ~s.called /\ s.cb = cb })
      /\ (Len(listeners') < Len(listeners) /\ { s \in issued' : ~s.called } # {})
           => watchers' = watchers ]_vars

\* C36: once a change notification has cleared coverUrlCache, no entry of the
\* cache was stored by a getCoverUrl call that began before the notification:
\* a lookup that was waiting for the cover extraction or the upload when the
\* notification ran does not store its URL or its negative result afterwards.
C36_NoEntryFromBeforeNotification ==
  \A id \in DOMAIN coverUrlCache : ~(coverUrlCache[id].has /\ coverUrlCache[id].stale)

\* the index holds the track's file, which carries a picture, and uploads work
SongResolvable ==
  /\ uploadService
  /\ bnk["u1"].present
  /\ FileSong \in Range(bnk["u1"].paths)

\* C37: with no watch notification ever delivered, once the index file is
\* modified so that the track resolves, the repeated getCoverUrl calls for the
\* track lead to a call that returns a cover URL, a negative result cached
\* before the modification notwithstanding.
C37_NegativeResultDoesNotPersist ==
  SongResolvable ~> (ret.kind = "cover" /\ ret.track = TrackSong /\ ret.value.given)

====
